---- MODULE Spec2Model ----
(***************************************************************************)
(* ParentZone backend (src/server.js, second file of the dump, lines       *)
(* 1293-4153): the device-link registry, the notification dispatcher and   *)
(* its retention cleanup, modelled as request handlers that interleave at  *)
(* every await on the document store or the push gateway.                  *)
(*                                                                         *)
(* Not modelled: log output, the in-memory `devices` cache (no handler     *)
(* below reads it), updatedAt/sentAt/readAt stamps, notification title,    *)
(* priority and data payload (opaque to every decision below).             *)
(***************************************************************************)
EXTENDS Integers, Sequences, FiniteSets, TLC

\* ------------------------------------------------------------------ bounds
MaxTime == 2        \* server clock values 0..MaxTime
MaxNotifs == 1      \* documents ever created in the notification collections
MaxDay == 2         \* calendar dates 1..MaxDay

\* --------------------------------------------------------------- constants
KeepCount == 30     \* notifications.slice(30)

\* ------------------------------------------------------------------ values
\* the id pair remote-lock and remote-unlock do not verify
HardcodedParent == "azizurgreat111@gmail.com"
HardcodedChild == "1unknown.annonymous1@gmail.com"
Devices == {"p1", "c1", "c2", HardcodedParent, HardcodedChild}
NoUser == "none"        \* absent / undefined / null id
NoType == "none"        \* deviceType absent
NoToken == "none"       \* fcmToken absent
NoFamily == "none"      \* familyId absent
NoLocation == "none"    \* SOS request without location
NoMsg == <<"null", 0>>  \* fcmMessageId = null
FcmMsg == <<"fcm", 0>>  \* a delivery id returned by admin.messaging().send

DeviceTypes == {"parent", "child"}

NoReg == [exists |-> FALSE, deviceType |-> NoType, fcmToken |-> NoToken,
          familyId |-> NoFamily, linkedTo |-> NoUser, registeredAt |-> FALSE]

IdleH == [pc |-> "idle"]
\* no response was produced by the last step
NoResp == [op |-> "none"]

VARIABLES
    regs,     \* collection deviceRegistrations: deviceId -> document
    notifs,   \* documents of parentNotifications, childNotifications, notifications
    nextId,   \* number of notification documents created so far (auto ids)
    now,      \* server clock (FieldValue.serverTimestamp())
    reg,      \* POST /api/devices/register in flight
    lnk,      \* POST /api/devices/link in flight
    snd,      \* a sendNotificationToUser call in flight
    api,      \* POST /api/notifications/send in flight
    sos,      \* POST /api/notifications/sos in flight
    mrk,      \* PUT /api/notifications/:notificationId/read in flight
    mar,      \* PUT /api/notifications/:userId/read-all in flight
    cln,      \* POST /api/notifications/:userId/cleanup in flight
    devs,     \* collection devices: deviceId -> document (apps, screenTime)
    pulls,    \* collection appUsageLimits: deviceId -> document (apps map)
    today,    \* the calendar date new Date().toISOString().split('T')[0] gives
    lim,      \* POST /api/device/:deviceId/app-limit in flight
    scr,      \* POST /api/device/:deviceId/screen-time-limit in flight
    pul,      \* POST /api/device/:deviceId/app-usage-limits in flight
    resp      \* the HTTP response / return value produced by the last step, if any

registryH == <<reg, lnk>>
notifyH == <<snd, api, sos, mrk, mar, cln>>
usageS == <<devs, pulls, today, lim, scr, pul>>
vars == <<regs, notifs, nextId, now, registryH, notifyH, usageS, resp>>

\* Requests in flight: one register and one link at a time; one of the
\* operations that create a notification at a time (they write distinct
\* documents and read no notification); one of the operations that update or
\* delete notifications at a time.
DispatchFree == snd.pc = "idle" /\ api.pc = "idle" /\ sos.pc = "idle"
MaintainFree == mrk.pc = "idle" /\ mar.pc = "idle" /\ cln.pc = "idle"

\* ------------------------------------------------------- DeviceLinkRegistry
\* doc(userId).get(): existingDoc.exists ? existingDoc.data() : {}
ExistingData(u) == regs[u]

\* register's updateData, built from the request and the snapshot it read.
\* A field equal to its "absent" value is not part of updateData.
RegisterUpdateData(fcmToken, deviceType, familyId, existed, exFamily, exLinked) ==
    [fcmToken |-> fcmToken,
     deviceType |-> deviceType,
     familyId |-> IF familyId # NoFamily THEN familyId ELSE exFamily,
     linkedTo |-> exLinked,
     registeredAt |-> ~existed]

\* set(updateData, {merge: true}) on a registration document.
MergeRegistration(doc, upd) ==
    [exists |-> TRUE,
     fcmToken |-> upd.fcmToken,
     deviceType |-> upd.deviceType,
     familyId |-> IF upd.familyId # NoFamily THEN upd.familyId ELSE doc.familyId,
     linkedTo |-> IF upd.linkedTo # NoUser THEN upd.linkedTo ELSE doc.linkedTo,
     registeredAt |-> IF upd.registeredAt THEN TRUE ELSE doc.registeredAt]

\* set({linkedTo: peer, updatedAt}, {merge: true}): creates the document if absent.
MergeLinkedTo(doc, peer) == [doc EXCEPT !.exists = TRUE, !.linkedTo = peer]

\* if (!userId || !fcmToken || !deviceType) return 400
RegisterReject(u, fcmToken, deviceType) ==
    /\ reg.pc = "idle"
    /\ fcmToken = NoToken \/ deviceType = NoType
    /\ resp' = [op |-> "register", status |-> 400]
    /\ UNCHANGED <<regs, notifs, nextId, now, reg, lnk, notifyH, usageS>>

\* const existingDoc = await ...doc(userId).get()
RegisterRead(u, fcmToken, deviceType, familyId) ==
    /\ reg.pc = "idle"
    /\ fcmToken # NoToken /\ deviceType # NoType
    /\ reg' = [pc |-> "read", userId |-> u, fcmToken |-> fcmToken,
               deviceType |-> deviceType, familyId |-> familyId,
               existed |-> ExistingData(u).exists,
               exFamily |-> ExistingData(u).familyId,
               exLinked |-> ExistingData(u).linkedTo]
    /\ resp' = NoResp
    /\ UNCHANGED <<regs, notifs, nextId, now, lnk, notifyH, usageS>>

\* await ...doc(userId).set(updateData, {merge: true}); res.json({success: true})
RegisterWrite ==
    /\ reg.pc = "read"
    /\ regs' = [regs EXCEPT ![reg.userId] =
                  MergeRegistration(@, RegisterUpdateData(reg.fcmToken, reg.deviceType,
                      reg.familyId, reg.existed, reg.exFamily, reg.exLinked))]
    /\ reg' = IdleH
    /\ resp' = [op |-> "register", status |-> 200]
    /\ UNCHANGED <<notifs, nextId, now, lnk, notifyH, usageS>>

\* the set() rejects: catch -> 500 'Failed to register device'
RegisterWriteFail ==
    /\ reg.pc = "read"
    /\ reg' = IdleH
    /\ resp' = [op |-> "register", status |-> 500]
    /\ UNCHANGED <<regs, notifs, nextId, now, lnk, notifyH, usageS>>

\* first write of link: await ...doc(parentId).set({linkedTo: childId}, {merge: true})
LinkWriteParent(parentId, childId) ==
    /\ lnk.pc = "idle"
    /\ regs' = [regs EXCEPT ![parentId] = MergeLinkedTo(@, childId)]
    /\ lnk' = [pc |-> "w1", parentId |-> parentId, childId |-> childId]
    /\ resp' = NoResp
    /\ UNCHANGED <<notifs, nextId, now, reg, notifyH, usageS>>

\* the first write rejects: catch -> 500 'Failed to link devices'
LinkWriteParentFail(parentId, childId) ==
    /\ lnk.pc = "idle"
    /\ resp' = [op |-> "link", status |-> 500, parentId |-> parentId,
                childId |-> childId, stage |-> "parent"]
    /\ UNCHANGED <<regs, notifs, nextId, now, reg, lnk, notifyH, usageS>>

\* second write of link, then res.json({success: true, parentId, childId})
LinkWriteChild ==
    /\ lnk.pc = "w1"
    /\ regs' = [regs EXCEPT ![lnk.childId] = MergeLinkedTo(@, lnk.parentId)]
    /\ lnk' = IdleH
    /\ resp' = [op |-> "link", status |-> 200, parentId |-> lnk.parentId,
                childId |-> lnk.childId]
    /\ UNCHANGED <<notifs, nextId, now, reg, notifyH, usageS>>

\* (mutant) the first write undone when the second rejects
LinkWriteChildFail_Rollback ==
    /\ lnk.pc = "w1"
    /\ regs' = [regs EXCEPT ![lnk.parentId].linkedTo = NoUser]
    /\ lnk' = IdleH
    /\ resp' = [op |-> "link", status |-> 500, parentId |-> lnk.parentId,
                childId |-> lnk.childId, stage |-> "child"]
    /\ UNCHANGED <<notifs, nextId, now, reg, notifyH, usageS>>

\* the second write rejects: catch -> 500, the first write stays
LinkWriteChildFail ==
    /\ lnk.pc = "w1"
    /\ lnk' = IdleH
    /\ resp' = [op |-> "link", status |-> 500, parentId |-> lnk.parentId,
                childId |-> lnk.childId, stage |-> "child"]
    /\ UNCHANGED <<regs, notifs, nextId, now, reg, notifyH, usageS>>

\* resolvePeer: the linkedTo a handler reads from the registration
ResolvePeer(u) == regs[u].linkedTo

\* ------------------------------------------------ NotificationRouter
Partitions == {"parentNotifications", "childNotifications"}
LegacyCollection == "notifications"

\* (mutant) the two collections swapped
GetNotificationCollection_Swapped(deviceType) ==
    IF deviceType = "parent" THEN "childNotifications" ELSE "parentNotifications"

\* const getNotificationCollection = (deviceType) => ...
GetNotificationCollection(deviceType) ==
    IF deviceType = "parent" THEN "parentNotifications" ELSE "childNotifications"

\* the document a handler writes with notificationRef.set(...): read: false,
\* timestamp: serverTimestamp()
NewDoc(coll, userId, type, body, fromParentId, fromChildId) ==
    [id |-> nextId + 1, coll |-> coll, userId |-> userId, type |-> type,
     body |-> body, read |-> FALSE, ts |-> now,
     fromParentId |-> fromParentId, fromChildId |-> fromChildId]

CanCreate == nextId < MaxNotifs

\* (mutant) the query without its read filter
UnreadQuery_NoReadFilter(coll, userId) ==
    {n \in notifs : n.coll = coll /\ n.userId = userId}

\* db.collection(c).where('userId', '==', u).where('read', '==', false).get()
UnreadQuery(coll, userId) ==
    {n \in notifs : n.coll = coll /\ n.userId = userId /\ n.read = FALSE}

\* db.collection(c).doc(id).get()
DocsAt(coll, id) == {n \in notifs : n.coll = coll /\ n.id = id}

\* (mutant) the push id alone, null when there is none
MessageId_PushIdOnly(fcmMessageId, id) == fcmMessageId

\* messageId: fcmMessageId || notificationRef.id
MessageId(fcmMessageId, id) ==
    IF fcmMessageId # NoMsg THEN fcmMessageId ELSE <<"doc", id>>

\* ---- sendNotificationToUser(targetUserId, title, body, type, data, priority, fromUserId)
\* (mutant) the existence check dropped
TargetExists_Unchecked(target) == TRUE

\* targetDeviceDoc.exists
TargetExists(target) == regs[target].exists

\* targetDeviceDoc = await ...get(); if (!targetDeviceDoc.exists) throw
SendTargetNotFound(target) ==
    /\ snd.pc = "idle"
    /\ ~TargetExists(target)
    /\ resp' = [op |-> "send", status |-> "TargetNotFound", target |-> target]
    /\ UNCHANGED <<regs, notifs, nextId, now, registryH, notifyH, usageS>>

SendRead(target, type, from) ==
    /\ snd.pc = "idle"
    /\ DispatchFree
    /\ TargetExists(target)
    /\ snd' = [pc |-> IF from = NoUser THEN "built" ELSE "read",
               target |-> target, type |-> type, from |-> from,
               tgtType |-> regs[target].deviceType,
               tgtToken |-> regs[target].fcmToken,
               coll |-> GetNotificationCollection(regs[target].deviceType),
               fromParentId |-> NoUser, fromChildId |-> NoUser, id |-> 0]
    /\ resp' = NoResp
    /\ UNCHANGED <<regs, notifs, nextId, now, registryH, api, sos, mrk, mar, cln, usageS>>

\* if (fromUserId) { fromDeviceDoc = await ...get(); ... }
SendReadFrom ==
    /\ snd.pc = "read"
    /\ snd' = [snd EXCEPT !.pc = "built",
                 !.fromParentId = IF regs[snd.from].exists
                                     /\ regs[snd.from].deviceType = "parent"
                                  THEN snd.from ELSE NoUser,
                 !.fromChildId = IF regs[snd.from].exists
                                    /\ regs[snd.from].deviceType # "parent"
                                 THEN snd.from ELSE NoUser]
    /\ resp' = NoResp
    /\ UNCHANGED <<regs, notifs, nextId, now, registryH, api, sos, mrk, mar, cln, usageS>>

\* await notificationRef.set(notificationData)
SendPersist ==
    /\ snd.pc = "built"
    /\ CanCreate
    /\ notifs' = notifs \cup {NewDoc(snd.coll, snd.target, snd.type, "given",
                                     snd.fromParentId, snd.fromChildId)}
    /\ nextId' = nextId + 1
    /\ snd' = [snd EXCEPT !.pc = "stored", !.id = nextId + 1]
    /\ resp' = NoResp
    /\ UNCHANGED <<regs, now, registryH, api, sos, mrk, mar, cln, usageS>>

\* the set() rejects: the outer catch rethrows
SendPersistFail ==
    /\ snd.pc = "built"
    /\ snd' = IdleH
    /\ resp' = [op |-> "send", status |-> "PersistenceFailure"]
    /\ UNCHANGED <<regs, notifs, nextId, now, registryH, api, sos, mrk, mar, cln, usageS>>

\* what sendNotificationToUser returns
\* (push is the gateway's outcome, recorded beside the returned fields)
SendResult(fcmMessageId, push) ==
    [op |-> "send", status |-> "ok", target |-> snd.target, notificationId |-> snd.id,
     messageId |-> MessageId(fcmMessageId, snd.id), collection |-> snd.coll,
     push |-> push]

\* if (fcmToken) fcmMessageId = await admin.messaging().send(message)
SendPushOk ==
    /\ snd.pc = "stored"
    /\ snd.tgtToken # NoToken
    /\ snd' = IdleH
    /\ resp' = SendResult(FcmMsg, "delivered")
    /\ UNCHANGED <<regs, notifs, nextId, now, registryH, api, sos, mrk, mar, cln, usageS>>

\* messaging().send rejects: catch (fcmError) logs, fcmMessageId stays null
SendPushFail ==
    /\ snd.pc = "stored"
    /\ snd.tgtToken # NoToken
    /\ snd' = IdleH
    /\ resp' = SendResult(NoMsg, "failed")
    /\ UNCHANGED <<regs, notifs, nextId, now, registryH, api, sos, mrk, mar, cln, usageS>>

\* else: 'No FCM token found for user'
SendNoToken ==
    /\ snd.pc = "stored"
    /\ snd.tgtToken = NoToken
    /\ snd' = IdleH
    /\ resp' = SendResult(NoMsg, "skipped")
    /\ UNCHANGED <<regs, notifs, nextId, now, registryH, api, sos, mrk, mar, cln, usageS>>

\* ---- the directional helpers
\* 400 'Missing required fields'
HelperReject ==
    /\ snd.pc = "idle"
    /\ resp' = [op |-> "helper", status |-> 400]
    /\ UNCHANGED <<regs, notifs, nextId, now, registryH, notifyH, usageS>>

\* a helper's call of sendNotificationToUser(target, ..., type, ..., from)
\* after its own read of the registrations
PeerCall(target, type, from) ==
    [pc |-> "peer", target |-> target, type |-> type, from |-> from,
     tgtType |-> NoType, tgtToken |-> NoToken, coll |-> "none",
     fromParentId |-> NoUser, fromChildId |-> NoUser, id |-> 0]

\* app-installed, app-limit-exceeded, battery-low, geofence-alert,
\* task-completed: if (!childDeviceDoc.exists || !childDeviceDoc.data().linkedTo)
\* return 404 'Parent not found'
ToParentNotFound(childId, type) ==
    /\ snd.pc = "idle"
    /\ ~regs[childId].exists \/ regs[childId].linkedTo = NoUser
    /\ resp' = [op |-> "helper", status |-> 404, type |-> type, sender |-> childId]
    /\ UNCHANGED <<regs, notifs, nextId, now, registryH, notifyH, usageS>>

\* parentId = childDeviceDoc.data().linkedTo; sendNotificationToUser(parentId, ...)
ToParentResolve(childId, type) ==
    /\ snd.pc = "idle"
    /\ DispatchFree
    /\ regs[childId].exists /\ regs[childId].linkedTo # NoUser
    /\ snd' = PeerCall(regs[childId].linkedTo, type, childId)
    /\ resp' = NoResp
    /\ UNCHANGED <<regs, notifs, nextId, now, registryH, api, sos, mrk, mar, cln, usageS>>

\* const isHardcodedPair = (parentId === '...' && childId === '...')
IsHardcodedPair(parentId, childId) ==
    parentId = HardcodedParent /\ childId = HardcodedChild

\* the hardcoded pair: no verification, sendNotificationToUser(childId, ..., parentId)
RemoteLockHardcoded(parentId, childId, type) ==
    /\ snd.pc = "idle"
    /\ DispatchFree
    /\ IsHardcodedPair(parentId, childId)
    /\ snd' = PeerCall(childId, type, parentId)
    /\ resp' = NoResp
    /\ UNCHANGED <<regs, notifs, nextId, now, registryH, api, sos, mrk, mar, cln, usageS>>

\* remote-lock, remote-unlock: 404 'Child device not found'
RemoteLockNotFound(parentId, childId, type) ==
    /\ snd.pc = "idle"
    /\ ~IsHardcodedPair(parentId, childId)
    /\ ~regs[childId].exists
    /\ resp' = [op |-> "helper", status |-> 404, type |-> type, sender |-> parentId]
    /\ UNCHANGED <<regs, notifs, nextId, now, registryH, notifyH, usageS>>

\* if (linkedParentId !== parentId) return 403 'Not authorized ...'
RemoteLockForbidden(parentId, childId, type) ==
    /\ snd.pc = "idle"
    /\ ~IsHardcodedPair(parentId, childId)
    /\ regs[childId].exists /\ regs[childId].linkedTo # parentId
    /\ resp' = [op |-> "helper", status |-> 403, type |-> type, sender |-> parentId]
    /\ UNCHANGED <<regs, notifs, nextId, now, registryH, notifyH, usageS>>

\* (mutant) the child only has to be registered
RemoteLockVerify_AnyParent(parentId, childId, type) ==
    /\ snd.pc = "idle"
    /\ DispatchFree
    /\ ~IsHardcodedPair(parentId, childId)
    /\ regs[childId].exists
    /\ snd' = PeerCall(childId, type, parentId)
    /\ resp' = NoResp
    /\ UNCHANGED <<regs, notifs, nextId, now, registryH, api, sos, mrk, mar, cln, usageS>>

\* the relationship holds: sendNotificationToUser(childId, ..., parentId)
RemoteLockVerify(parentId, childId, type) ==
    /\ snd.pc = "idle"
    /\ DispatchFree
    /\ ~IsHardcodedPair(parentId, childId)
    /\ regs[childId].exists /\ regs[childId].linkedTo = parentId
    /\ snd' = PeerCall(childId, type, parentId)
    /\ resp' = NoResp
    /\ UNCHANGED <<regs, notifs, nextId, now, registryH, api, sos, mrk, mar, cln, usageS>>

\* the target read of a helper's sendNotificationToUser: throw when absent
PeerTargetNotFound ==
    /\ snd.pc = "peer"
    /\ ~TargetExists(snd.target)
    /\ snd' = IdleH
    /\ resp' = [op |-> "send", status |-> "TargetNotFound", target |-> snd.target]
    /\ UNCHANGED <<regs, notifs, nextId, now, registryH, api, sos, mrk, mar, cln, usageS>>

PeerSendRead ==
    /\ snd.pc = "peer"
    /\ TargetExists(snd.target)
    /\ snd' = [snd EXCEPT !.pc = "read",
                 !.tgtType = regs[snd.target].deviceType,
                 !.tgtToken = regs[snd.target].fcmToken,
                 !.coll = GetNotificationCollection(regs[snd.target].deviceType)]
    /\ resp' = NoResp
    /\ UNCHANGED <<regs, notifs, nextId, now, registryH, api, sos, mrk, mar, cln, usageS>>

\* ---- POST /api/notifications/send
\* if (!targetUserId || !title || !body) return 400
ApiReject ==
    /\ api.pc = "idle"
    /\ resp' = [op |-> "apiSend", status |-> 400]
    /\ UNCHANGED <<regs, notifs, nextId, now, registryH, notifyH, usageS>>

\* collectionName: the caller's deviceType if given, else auto-detected from
\* the registration, else the default 'childNotifications'
ApiCollection(deviceType, target) ==
    IF deviceType # NoType
    THEN (IF deviceType = "parent" THEN "parentNotifications" ELSE "childNotifications")
    ELSE IF regs[target].exists
         THEN (IF regs[target].deviceType = "parent"
               THEN "parentNotifications" ELSE "childNotifications")
         ELSE "childNotifications"

ApiResolve(target, deviceType) ==
    /\ api.pc = "idle"
    /\ DispatchFree
    /\ api' = [pc |-> "resolved", target |-> target, deviceType |-> deviceType,
               coll |-> ApiCollection(deviceType, target), id |-> 0,
               token |-> NoToken,
               \* observers, not program state: what the registration held
               \* when the collection was chosen
               seenExists |-> regs[target].exists,
               seenType |-> regs[target].deviceType]
    /\ resp' = NoResp
    /\ UNCHANGED <<regs, notifs, nextId, now, registryH, snd, sos, mrk, mar, cln, usageS>>

\* await notificationRef.set(notificationData); type: data?.type || 'info'
ApiPersist ==
    /\ api.pc = "resolved"
    /\ CanCreate
    /\ notifs' = notifs \cup {NewDoc(api.coll, api.target, "info", "given", NoUser, NoUser)}
    /\ nextId' = nextId + 1
    /\ api' = [api EXCEPT !.pc = "stored", !.id = nextId + 1]
    /\ resp' = NoResp
    /\ UNCHANGED <<regs, now, registryH, snd, sos, mrk, mar, cln, usageS>>

ApiPersistFail ==
    /\ api.pc = "resolved"
    /\ api' = IdleH
    /\ resp' = [op |-> "apiSend", status |-> 500]
    /\ UNCHANGED <<regs, notifs, nextId, now, registryH, snd, sos, mrk, mar, cln, usageS>>

\* targetDeviceDoc = await ...get(), inside the try around the push
ApiReadToken ==
    /\ api.pc = "stored"
    /\ api' = [api EXCEPT !.pc = "token",
                 !.token = IF regs[api.target].exists
                           THEN regs[api.target].fcmToken ELSE NoToken]
    /\ resp' = NoResp
    /\ UNCHANGED <<regs, notifs, nextId, now, registryH, snd, sos, mrk, mar, cln, usageS>>

ApiResult(fcmMessageId, push) ==
    [op |-> "apiSend", status |-> 200, target |-> api.target, notificationId |-> api.id,
     messageId |-> MessageId(fcmMessageId, api.id), collection |-> api.coll,
     push |-> push]

ApiPushOk ==
    /\ api.pc = "token"
    /\ api.token # NoToken
    /\ api' = IdleH
    /\ resp' = ApiResult(FcmMsg, "delivered")
    /\ UNCHANGED <<regs, notifs, nextId, now, registryH, snd, sos, mrk, mar, cln, usageS>>

ApiPushFail ==
    /\ api.pc = "token"
    /\ api.token # NoToken
    /\ api' = IdleH
    /\ resp' = ApiResult(NoMsg, "failed")
    /\ UNCHANGED <<regs, notifs, nextId, now, registryH, snd, sos, mrk, mar, cln, usageS>>

ApiNoToken ==
    /\ api.pc = "token"
    /\ api.token = NoToken
    /\ api' = IdleH
    /\ resp' = ApiResult(NoMsg, "skipped")
    /\ UNCHANGED <<regs, notifs, nextId, now, registryH, snd, sos, mrk, mar, cln, usageS>>

\* ---- POST /api/notifications/sos
\* locationText, then body = `Your child needs immediate help! ${locationText}`
SosBody(location) ==
    IF location # NoLocation
    THEN "Your child needs immediate help! Location: <lat>, <lng>"
    ELSE "Your child needs immediate help! Location not available"

\* childDeviceDoc = await ...get(): 404 when absent or without linkedTo
SosChildNotFound(childId, location) ==
    /\ sos.pc = "idle"
    /\ ~regs[childId].exists \/ regs[childId].linkedTo = NoUser
    /\ resp' = [op |-> "sos", status |-> 404,
                error |-> IF ~regs[childId].exists THEN "Child device not found"
                          ELSE "No parent linked to this child",
                childId |-> childId, parentId |-> NoUser, location |-> location]
    /\ UNCHANGED <<regs, notifs, nextId, now, registryH, notifyH, usageS>>

SosReadChild(childId, location) ==
    /\ sos.pc = "idle"
    /\ DispatchFree
    /\ regs[childId].exists /\ regs[childId].linkedTo # NoUser
    /\ sos' = [pc |-> "child", childId |-> childId, location |-> location,
               parentId |-> regs[childId].linkedTo, fcm |-> NoMsg, push |-> "none",
               id |-> 0]
    /\ resp' = NoResp
    /\ UNCHANGED <<regs, notifs, nextId, now, registryH, snd, api, mrk, mar, cln, usageS>>

\* parentDeviceDoc = await ...get();
\* if (!parentDeviceDoc.exists || !parentDeviceDoc.data().fcmToken) return 404
SosParentNotFound ==
    /\ sos.pc = "child"
    /\ ~regs[sos.parentId].exists \/ regs[sos.parentId].fcmToken = NoToken
    /\ sos' = IdleH
    /\ resp' = [op |-> "sos", status |-> 404,
                error |-> "Parent device not found or not registered for notifications",
                childId |-> sos.childId, parentId |-> sos.parentId,
                location |-> sos.location]
    /\ UNCHANGED <<regs, notifs, nextId, now, registryH, snd, api, mrk, mar, cln, usageS>>

SosReadParent ==
    /\ sos.pc = "child"
    /\ regs[sos.parentId].exists /\ regs[sos.parentId].fcmToken # NoToken
    /\ sos' = [sos EXCEPT !.pc = "parent"]
    /\ resp' = NoResp
    /\ UNCHANGED <<regs, notifs, nextId, now, registryH, snd, api, mrk, mar, cln, usageS>>

\* fcmMessageId = await admin.messaging().send(message), before the document is written
SosPushOk ==
    /\ sos.pc = "parent"
    /\ sos' = [sos EXCEPT !.pc = "pushed", !.fcm = FcmMsg, !.push = "delivered"]
    /\ resp' = NoResp
    /\ UNCHANGED <<regs, notifs, nextId, now, registryH, snd, api, mrk, mar, cln, usageS>>

\* catch (fcmError): 'FCM push notification failed (continuing anyway)'
SosPushFail ==
    /\ sos.pc = "parent"
    /\ sos' = [sos EXCEPT !.pc = "pushed", !.fcm = NoMsg, !.push = "failed"]
    /\ resp' = NoResp
    /\ UNCHANGED <<regs, notifs, nextId, now, registryH, snd, api, mrk, mar, cln, usageS>>

\* await db.collection('parentNotifications').doc().set({...}); res.json(...)
SosPersist ==
    /\ sos.pc = "pushed"
    /\ CanCreate
    /\ notifs' = notifs \cup {NewDoc("parentNotifications", sos.parentId, "sos",
                                     SosBody(sos.location), NoUser, sos.childId)}
    /\ nextId' = nextId + 1
    /\ sos' = IdleH
    /\ resp' = [op |-> "sos", status |-> 200, error |-> "none",
                childId |-> sos.childId, parentId |-> sos.parentId,
                location |-> sos.location, notificationId |-> nextId + 1,
                messageId |-> MessageId(sos.fcm, nextId + 1), push |-> sos.push]
    /\ UNCHANGED <<regs, now, registryH, snd, api, mrk, mar, cln, usageS>>

SosPersistFail ==
    /\ sos.pc = "pushed"
    /\ sos' = IdleH
    /\ resp' = [op |-> "sos", status |-> 500, error |-> "Failed to send SOS alert",
                childId |-> sos.childId, parentId |-> sos.parentId,
                location |-> sos.location]
    /\ UNCHANGED <<regs, notifs, nextId, now, registryH, snd, api, mrk, mar, cln, usageS>>

\* ---- GET /api/notifications/:userId/unread-count
\* deviceType = req.query.deviceType || 'parent'
UnreadCountCollection(deviceType) ==
    IF (IF deviceType # NoType THEN deviceType ELSE "parent") = "parent"
    THEN "parentNotifications" ELSE "childNotifications"

UnreadCount(userId, deviceType) ==
    /\ resp' = [op |-> "unreadCount", status |-> 200, userId |-> userId,
                deviceType |-> deviceType,
                count |-> Cardinality(UnreadQuery(UnreadCountCollection(deviceType), userId))]
    /\ UNCHANGED <<regs, notifs, nextId, now, registryH, notifyH, usageS>>

\* ---- PUT /api/notifications/:notificationId/read
MarkReadCollection(deviceType) ==
    IF deviceType = "parent" THEN "parentNotifications" ELSE "childNotifications"

\* notificationDoc = await notificationRef.get(); if (!exists) return 404
MarkReadNotFound(id, deviceType) ==
    /\ mrk.pc = "idle"
    /\ DocsAt(MarkReadCollection(deviceType), id) = {}
    /\ resp' = [op |-> "markRead", status |-> 404]
    /\ UNCHANGED <<regs, notifs, nextId, now, registryH, notifyH, usageS>>

MarkReadGet(id, deviceType) ==
    /\ mrk.pc = "idle"
    /\ MaintainFree
    /\ DocsAt(MarkReadCollection(deviceType), id) # {}
    /\ mrk' = [pc |-> "got", id |-> id, coll |-> MarkReadCollection(deviceType)]
    /\ resp' = NoResp
    /\ UNCHANGED <<regs, notifs, nextId, now, registryH, snd, api, sos, mar, cln, usageS>>

\* (mutant) the update flips the flag
MarkReadUpdate_Toggle ==
    /\ mrk.pc = "got"
    /\ DocsAt(mrk.coll, mrk.id) # {}
    /\ notifs' = {IF n.coll = mrk.coll /\ n.id = mrk.id THEN [n EXCEPT !.read = ~n.read] ELSE n
                    : n \in notifs}
    /\ mrk' = IdleH
    /\ resp' = [op |-> "markRead", status |-> 200]
    /\ UNCHANGED <<regs, nextId, now, registryH, snd, api, sos, mar, cln, usageS>>

\* await notificationRef.update({read: true, readAt})
MarkReadUpdate ==
    /\ mrk.pc = "got"
    /\ DocsAt(mrk.coll, mrk.id) # {}
    /\ notifs' = {IF n.coll = mrk.coll /\ n.id = mrk.id THEN [n EXCEPT !.read = TRUE] ELSE n
                    : n \in notifs}
    /\ mrk' = IdleH
    /\ resp' = [op |-> "markRead", status |-> 200]
    /\ UNCHANGED <<regs, nextId, now, registryH, snd, api, sos, mar, cln, usageS>>

\* update() of a document deleted since the get (or a store failure) rejects: 500
MarkReadUpdateFail ==
    /\ mrk.pc = "got"
    /\ mrk' = IdleH
    /\ resp' = [op |-> "markRead", status |-> 500]
    /\ UNCHANGED <<regs, notifs, nextId, now, registryH, snd, api, sos, mar, cln, usageS>>

\* ---- PUT /api/notifications/:userId/read-all
\* notificationsSnapshot = await db.collection('notifications').where(userId).where(read == false).get()
\* unreadThen is an observer, not program state: the ids of the user's unread
\* documents in the two partitions at the moment of the snapshot.
MarkAllReadSnap(userId) ==
    /\ mar.pc = "idle"
    /\ MaintainFree
    /\ mar' = [pc |-> "snap", userId |-> userId,
               refs |-> {n.id : n \in UnreadQuery(LegacyCollection, userId)},
               unreadThen |-> {n.id : n \in UnreadQuery("parentNotifications", userId)
                                        \cup UnreadQuery("childNotifications", userId)}]
    /\ resp' = NoResp
    /\ UNCHANGED <<regs, notifs, nextId, now, registryH, snd, api, sos, mrk, cln, usageS>>

\* batch.update(doc.ref, {read: true, readAt}) for each; await batch.commit()
MarkAllReadCommit ==
    /\ mar.pc = "snap"
    /\ notifs' = {IF n.coll = LegacyCollection /\ n.id \in mar.refs
                  THEN [n EXCEPT !.read = TRUE] ELSE n : n \in notifs}
    /\ mar' = IdleH
    /\ resp' = [op |-> "markAllRead", status |-> 200, userId |-> mar.userId,
                count |-> Cardinality(mar.refs), unreadThen |-> mar.unreadThen]
    /\ UNCHANGED <<regs, nextId, now, registryH, snd, api, sos, mrk, cln, usageS>>

\* the batch rejects as a whole: 500, nothing applied
MarkAllReadCommitFail ==
    /\ mar.pc = "snap"
    /\ mar' = IdleH
    /\ resp' = [op |-> "markAllRead", status |-> 500]
    /\ UNCHANGED <<regs, notifs, nextId, now, registryH, snd, api, sos, mrk, cln, usageS>>

\* ---- POST /api/notifications (testing / internal use): writes 'notifications'
CreateNotification(userId) ==
    /\ CanCreate
    /\ notifs' = notifs \cup {NewDoc(LegacyCollection, userId, "info", "given", NoUser, NoUser)}
    /\ nextId' = nextId + 1
    /\ resp' = [op |-> "create", status |-> 200, notificationId |-> nextId + 1]
    /\ UNCHANGED <<regs, now, registryH, notifyH, usageS>>

\* ---- DELETE /api/notifications/:notificationId?deviceType=
DeleteNotification(id, deviceType) ==
    /\ notifs' = IF deviceType = NoType THEN notifs
                 ELSE notifs \ DocsAt(GetNotificationCollection(deviceType), id)
    /\ resp' = [op |-> "delete", status |-> IF deviceType = NoType THEN 400 ELSE 200]
    /\ UNCHANGED <<regs, nextId, now, registryH, notifyH, usageS>>

\* ---- POST /api/notifications/:userId/cleanup
\* getDeviceTypeForUser: deviceDoc.data().deviceType || 'child', 'child' when absent
GetDeviceTypeForUser(userId) ==
    IF regs[userId].exists /\ regs[userId].deviceType # NoType
    THEN regs[userId].deviceType ELSE "child"

\* a query snapshot iterates in document-id order
RECURSIVE SnapshotOrder(_)
SnapshotOrder(docs) ==
    IF docs = {} THEN <<>>
    ELSE LET first == CHOOSE d \in docs : \A e \in docs : d.id <= e.id
         IN <<first>> \o SnapshotOrder(docs \ {first})

\* notifications.push({id: doc.id, timestamp: timestamp?.toDate?.()?.getTime() || 0})
CleanupEntries(coll, userId) ==
    LET snap == SnapshotOrder({n \in notifs : n.coll = coll /\ n.userId = userId})
    IN [i \in 1..Len(snap) |-> [id |-> snap[i].id, timestamp |-> snap[i].ts]]

\* (mutant) ascending: (a, b) => a.timestamp - b.timestamp
ComesBefore_Ascending(a, b) == a.timestamp - b.timestamp < 0

\* the comparator of notifications.sort: (a, b) => b.timestamp - a.timestamp;
\* a goes before b when the result is negative
ComesBefore(a, b) == b.timestamp - a.timestamp < 0

\* Array.prototype.sort is stable: x goes after every entry it does not precede
RECURSIVE InsertSorted(_, _)
InsertSorted(x, sorted) ==
    IF sorted = <<>> THEN <<x>>
    ELSE IF ComesBefore(x, Head(sorted)) THEN <<x>> \o sorted
    ELSE <<Head(sorted)>> \o InsertSorted(x, Tail(sorted))

RECURSIVE SortNotifications(_)
SortNotifications(entries) ==
    IF entries = <<>> THEN <<>>
    ELSE InsertSorted(entries[Len(entries)],
                      SortNotifications(SubSeq(entries, 1, Len(entries) - 1)))

\* notifications.slice(30)
ToDelete(sorted) == SubSeq(sorted, KeepCount + 1, Len(sorted))

Min(a, b) == IF a < b THEN a ELSE b

\* collectionName from ?deviceType=, else from getDeviceTypeForUser(userId)
CleanupStart(userId, deviceType) ==
    /\ cln.pc = "idle"
    /\ MaintainFree
    /\ cln' = [pc |-> "resolved", userId |-> userId,
               coll |-> IF deviceType # NoType
                        THEN GetNotificationCollection(deviceType)
                        ELSE GetNotificationCollection(GetDeviceTypeForUser(userId))]
    /\ resp' = NoResp
    /\ UNCHANGED <<regs, notifs, nextId, now, registryH, snd, api, sos, mrk, mar, usageS>>

\* the query, the sort and the slice; toDelete.length > 0: a batch is built
CleanupSnap ==
    /\ cln.pc = "resolved"
    /\ LET sorted == SortNotifications(CleanupEntries(cln.coll, cln.userId))
       IN /\ Len(ToDelete(sorted)) > 0
          /\ cln' = [pc |-> "snap", userId |-> cln.userId, coll |-> cln.coll,
                     notifications |-> sorted, toDelete |-> ToDelete(sorted)]
    /\ resp' = NoResp
    /\ UNCHANGED <<regs, notifs, nextId, now, registryH, snd, api, sos, mrk, mar, usageS>>

\* toDelete.length = 0: 'No cleanup needed'
CleanupNothing ==
    /\ cln.pc = "resolved"
    /\ LET sorted == SortNotifications(CleanupEntries(cln.coll, cln.userId))
       IN /\ Len(ToDelete(sorted)) = 0
          /\ resp' = [op |-> "cleanup", status |-> 200, deletedCount |-> 0,
                      remainingCount |-> Min(Len(sorted), KeepCount)]
    /\ cln' = IdleH
    /\ UNCHANGED <<regs, notifs, nextId, now, registryH, snd, api, sos, mrk, mar, usageS>>

\* (mutant) the commit deletes whatever is stored now beyond the kept ones
CleanupCommit_Requery ==
    /\ cln.pc = "snap"
    /\ notifs' = {n \in notifs :
                    ~(n.coll = cln.coll /\ n.userId = cln.userId)
                    \/ \E i \in 1..Min(Len(cln.notifications), KeepCount) :
                           cln.notifications[i].id = n.id}
    /\ cln' = IdleH
    /\ resp' = [op |-> "cleanup", status |-> 200, deletedCount |-> Len(cln.toDelete),
                remainingCount |-> Min(Len(cln.notifications), KeepCount)]
    /\ UNCHANGED <<regs, nextId, now, registryH, snd, api, sos, mrk, mar, usageS>>

\* batch.delete(...) for each of toDelete; await batch.commit()
CleanupCommit ==
    /\ cln.pc = "snap"
    /\ notifs' = {n \in notifs :
                    ~(n.coll = cln.coll
                      /\ \E i \in 1..Len(cln.toDelete) : cln.toDelete[i].id = n.id)}
    /\ cln' = IdleH
    /\ resp' = [op |-> "cleanup", status |-> 200, deletedCount |-> Len(cln.toDelete),
                remainingCount |-> Min(Len(cln.notifications), KeepCount)]
    /\ UNCHANGED <<regs, nextId, now, registryH, snd, api, sos, mrk, mar, usageS>>

\* the batch rejects as a whole: 500, nothing deleted
CleanupCommitFail ==
    /\ cln.pc = "snap"
    /\ cln' = IdleH
    /\ resp' = [op |-> "cleanup", status |-> 500]
    /\ UNCHANGED <<regs, notifs, nextId, now, registryH, snd, api, sos, mrk, mar, usageS>>

\* the server clock advances
Tick ==
    /\ now < MaxTime
    /\ now' = now + 1
    /\ resp' = NoResp
    /\ UNCHANGED <<regs, notifs, nextId, registryH, notifyH, usageS>>

\* ------------------------------------------------------- UsageLimitTracker
\* JavaScript values of a limit: null or a number
Null == <<"null", 0>>
Num(n) == <<"num", n>>

\* lastResetDate absent (undefined); calendar dates are 1, 2, ...
NoDate == 0
NoApp == "none"
LimitDevices == {"c1"}
LimitCalls == {1, 2}

\* devices/<deviceId>: absent, or a document with apps and screenTime
NoScreenTime ==
    [present |-> FALSE, limit |-> Null, totalMinutes |-> 0, lastResetDate |-> NoDate]
NoDev == [exists |-> FALSE, apps |-> <<>>, screenTime |-> NoScreenTime]

\* apps.findIndex(app => app.name === appName), 0 for -1
FindIndex(apps, appName) ==
    IF \E i \in 1..Len(apps) : apps[i].name = appName
    THEN CHOOSE i \in 1..Len(apps) :
            /\ apps[i].name = appName
            /\ \A j \in 1..(i - 1) : apps[j].name # appName
    ELSE 0

\* the entry of a new app: usage: 0, blocked: false, lastResetDate: today.
\* reportedOn and writer are observers: the date on which a sync reported the
\* entry's usage, and which operation wrote the entry last.
NewEntry(appName, limit, day) ==
    [name |-> appName, limit |-> limit, usage |-> 0, blocked |-> FALSE,
     lastResetDate |-> day, reportedOn |-> NoDate, writer |-> "limit"]

\* (mutant) the usage kept whatever lastResetDate says
UpdatedEntry_NoReset(existingApp, limit, day) ==
    [existingApp EXCEPT
        !.limit = limit,
        !.blocked = (limit # Null /\ existingApp.usage >= limit[2]),
        !.lastResetDate = day,
        !.writer = "limit"]

\* apps[appIndex] = {...existingApp, limit, usage: currentUsage, blocked: ...,
\* lastResetDate: today}
UpdatedEntry(existingApp, limit, day) ==
    LET shouldResetUsage == existingApp.lastResetDate # day
        currentUsage == IF shouldResetUsage THEN 0 ELSE existingApp.usage
    IN [existingApp EXCEPT
           !.limit = limit,
           !.usage = currentUsage,
           !.blocked = IF shouldResetUsage THEN FALSE
                       ELSE (limit # Null /\ currentUsage >= limit[2]),
           !.lastResetDate = day,
           !.writer = "limit"]

\* (mutant) an app without an entry replaces the list
AppsAfterLimit_Replace(apps, appName, limit, day) ==
    LET appIndex == FindIndex(apps, appName)
    IN IF appIndex > 0
       THEN [apps EXCEPT ![appIndex] = UpdatedEntry(apps[appIndex], limit, day)]
       ELSE <<NewEntry(appName, limit, day)>>

\* (mutant) every entry of another day is reset by the call
AppsAfterLimit_Sweep(apps, appName, limit, day) ==
    LET appIndex == FindIndex(apps, appName)
        swept == [i \in 1..Len(apps) |->
                    IF apps[i].lastResetDate # day
                    THEN [apps[i] EXCEPT !.usage = 0, !.blocked = FALSE,
                                         !.lastResetDate = day]
                    ELSE apps[i]]
    IN IF appIndex > 0
       THEN [swept EXCEPT ![appIndex] = UpdatedEntry(apps[appIndex], limit, day)]
       ELSE Append(swept, NewEntry(appName, limit, day))

\* the apps array the handler saves for an existing document
AppsAfterLimit(apps, appName, limit, day) ==
    LET appIndex == FindIndex(apps, appName)
    IN IF appIndex > 0
       THEN [apps EXCEPT ![appIndex] = UpdatedEntry(apps[appIndex], limit, day)]
       ELSE Append(apps, NewEntry(appName, limit, day))

\* the document after the handler's set(): without merge when the document
\* was absent at the read, with {merge: true} otherwise
DocAfterLimit(stored, read, appName, limit, day) ==
    IF ~read.exists
    THEN [exists |-> TRUE, apps |-> <<NewEntry(appName, limit, day)>>,
          screenTime |-> NoScreenTime]
    ELSE [stored EXCEPT !.exists = TRUE,
                        !.apps = AppsAfterLimit(read.apps, appName, limit, day)]

LimFree == \A k \in LimitCalls : lim[k].pc = "idle"

\* ---- POST /api/device/:deviceId/app-limit
\* 400 'Missing deviceId or appName'
AppLimitReject(k) ==
    /\ lim[k].pc = "idle"
    /\ resp' = [op |-> "appLimit", status |-> 400, call |-> k]
    /\ UNCHANGED <<regs, notifs, nextId, now, registryH, notifyH, usageS>>

\* const deviceDoc = await db.collection('devices').doc(deviceId).get();
\* const today = ...
AppLimitRead(k, deviceId, appName, limit) ==
    /\ lim[k].pc = "idle"
    /\ appName # NoApp
    /\ lim' = [lim EXCEPT ![k] =
                 [pc |-> "read", deviceId |-> deviceId, appName |-> appName,
                  limit |-> limit, doc |-> devs[deviceId], today |-> today,
                  coll |-> "none"]]
    /\ resp' = NoResp
    /\ UNCHANGED <<regs, notifs, nextId, now, registryH, notifyH,
                   devs, pulls, today, scr, pul>>

\* (mutant) the list is computed from the stored document at the write
AppLimitWrite_Fresh(k) ==
    /\ lim[k].pc = "read"
    /\ devs' = [devs EXCEPT ![lim[k].deviceId] =
                  DocAfterLimit(@, @, lim[k].appName, lim[k].limit, lim[k].today)]
    /\ lim' = [lim EXCEPT ![k].pc = "written"]
    /\ resp' = NoResp
    /\ UNCHANGED <<regs, notifs, nextId, now, registryH, notifyH,
                   pulls, today, scr, pul>>

\* await db.collection('devices').doc(deviceId).set(...)
AppLimitWrite(k) ==
    /\ lim[k].pc = "read"
    /\ devs' = [devs EXCEPT ![lim[k].deviceId] =
                  DocAfterLimit(@, lim[k].doc, lim[k].appName, lim[k].limit,
                                lim[k].today)]
    /\ lim' = [lim EXCEPT ![k].pc = "written"]
    /\ resp' = NoResp
    /\ UNCHANGED <<regs, notifs, nextId, now, registryH, notifyH,
                   pulls, today, scr, pul>>

\* the set() rejects: 500 'Failed to update app limit'
AppLimitWriteFail(k) ==
    /\ lim[k].pc = "read"
    /\ lim' = [lim EXCEPT ![k] = IdleH]
    /\ resp' = [op |-> "appLimit", status |-> 500, call |-> k]
    /\ UNCHANGED <<regs, notifs, nextId, now, registryH, notifyH,
                   devs, pulls, today, scr, pul>>

\* res.json({success: true, ...}) of app-limit
AppLimitOk(k) ==
    [op |-> "appLimit", status |-> 200, call |-> k, deviceId |-> lim[k].deviceId,
     appName |-> lim[k].appName, limit |-> lim[k].limit]

\* childDeviceDoc = await ...('deviceRegistrations').doc(deviceId).get():
\* no registration, no notification
AppLimitCheckReg(k) ==
    /\ lim[k].pc = "written"
    /\ IF regs[lim[k].deviceId].exists
       THEN /\ lim' = [lim EXCEPT ![k].pc = "notify"]
            /\ resp' = NoResp
       ELSE /\ lim' = [lim EXCEPT ![k] = IdleH]
            /\ resp' = AppLimitOk(k)
    /\ UNCHANGED <<regs, notifs, nextId, now, registryH, notifyH,
                   devs, pulls, today, scr, pul>>

\* sendNotificationToUser(deviceId, ..., 'app_limit_updated'): the target read
AppLimitSendRead(k) ==
    /\ lim[k].pc = "notify"
    /\ lim' = [lim EXCEPT ![k].pc = "built",
                           ![k].coll = GetNotificationCollection(
                                          regs[lim[k].deviceId].deviceType)]
    /\ resp' = NoResp
    /\ UNCHANGED <<regs, notifs, nextId, now, registryH, notifyH,
                   devs, pulls, today, scr, pul>>

\* await notificationRef.set(notificationData) inside sendNotificationToUser
AppLimitSendPersist(k) ==
    /\ lim[k].pc = "built"
    /\ CanCreate
    /\ notifs' = notifs \cup {NewDoc(lim[k].coll, lim[k].deviceId, "app_limit_updated",
                                     "given", NoUser, NoUser)}
    /\ nextId' = nextId + 1
    /\ lim' = [lim EXCEPT ![k].pc = "stored"]
    /\ resp' = NoResp
    /\ UNCHANGED <<regs, now, registryH, notifyH, devs, pulls, today, scr, pul>>

\* (mutant) the failure reaches the outer catch: 500
AppLimitSendPersistFail_Throws(k) ==
    /\ lim[k].pc = "built"
    /\ lim' = [lim EXCEPT ![k] = IdleH]
    /\ resp' = [op |-> "appLimit", status |-> 500, call |-> k]
    /\ UNCHANGED <<regs, notifs, nextId, now, registryH, notifyH,
                   devs, pulls, today, scr, pul>>

\* the notification cannot be persisted: catch (notifError), the call goes on
AppLimitSendPersistFail(k) ==
    /\ lim[k].pc = "built"
    /\ lim' = [lim EXCEPT ![k] = IdleH]
    /\ resp' = AppLimitOk(k)
    /\ UNCHANGED <<regs, notifs, nextId, now, registryH, notifyH,
                   devs, pulls, today, scr, pul>>

\* the push is delivered, fails or is skipped; res.json({success: true})
AppLimitRespond(k) ==
    /\ lim[k].pc = "stored"
    /\ lim' = [lim EXCEPT ![k] = IdleH]
    /\ resp' = AppLimitOk(k)
    /\ UNCHANGED <<regs, notifs, nextId, now, registryH, notifyH,
                   devs, pulls, today, scr, pul>>

\* ---- POST /api/device/:deviceId/screen-time-limit
\* (mutant) totalMinutes reset by every call
ScreenTimeUsage_AlwaysReset(doc, day) == 0

\* currentUsage: 0 for an absent document or another lastResetDate, else
\* deviceData.screenTime?.totalMinutes || 0
ScreenTimeUsage(doc, day) ==
    IF doc.exists /\ doc.screenTime.lastResetDate = day
    THEN doc.screenTime.totalMinutes
    ELSE 0

\* const today = ...; const deviceDoc = await ...('devices').doc(deviceId).get()
ScreenTimeRead(deviceId, limit) ==
    /\ scr.pc = "idle"
    /\ scr' = [pc |-> "read", deviceId |-> deviceId, limit |-> limit,
               doc |-> devs[deviceId], today |-> today, coll |-> "none"]
    /\ resp' = NoResp
    /\ UNCHANGED <<regs, notifs, nextId, now, registryH, notifyH,
                   devs, pulls, today, lim, pul>>

\* set({screenTime: {limit, totalMinutes: currentUsage, lastResetDate: today}},
\* {merge: true})
ScreenTimeWrite ==
    /\ scr.pc = "read"
    /\ devs' = [devs EXCEPT ![scr.deviceId] =
                  [@ EXCEPT !.exists = TRUE,
                            !.screenTime =
                                [present |-> TRUE, limit |-> scr.limit,
                                 totalMinutes |-> ScreenTimeUsage(scr.doc, scr.today),
                                 lastResetDate |-> scr.today]]]
    /\ scr' = [scr EXCEPT !.pc = "written"]
    /\ resp' = NoResp
    /\ UNCHANGED <<regs, notifs, nextId, now, registryH, notifyH,
                   pulls, today, lim, pul>>

\* the set() rejects: 500 'Failed to update screen time limit'
ScreenTimeWriteFail ==
    /\ scr.pc = "read"
    /\ scr' = IdleH
    /\ resp' = [op |-> "screenTime", status |-> 500]
    /\ UNCHANGED <<regs, notifs, nextId, now, registryH, notifyH,
                   devs, pulls, today, lim, pul>>

ScreenTimeOk ==
    [op |-> "screenTime", status |-> 200, deviceId |-> scr.deviceId,
     limit |-> scr.limit]

\* the registration read before the notification
ScreenTimeCheckReg ==
    /\ scr.pc = "written"
    /\ IF regs[scr.deviceId].exists
       THEN /\ scr' = [scr EXCEPT !.pc = "notify"]
            /\ resp' = NoResp
       ELSE /\ scr' = IdleH
            /\ resp' = ScreenTimeOk
    /\ UNCHANGED <<regs, notifs, nextId, now, registryH, notifyH,
                   devs, pulls, today, lim, pul>>

\* sendNotificationToUser(deviceId, ..., 'screen_time_limit_updated'): target read
ScreenTimeSendRead ==
    /\ scr.pc = "notify"
    /\ scr' = [scr EXCEPT !.pc = "built",
                 !.coll = GetNotificationCollection(regs[scr.deviceId].deviceType)]
    /\ resp' = NoResp
    /\ UNCHANGED <<regs, notifs, nextId, now, registryH, notifyH,
                   devs, pulls, today, lim, pul>>

ScreenTimeSendPersist ==
    /\ scr.pc = "built"
    /\ CanCreate
    /\ notifs' = notifs \cup {NewDoc(scr.coll, scr.deviceId, "screen_time_limit_updated",
                                     "given", NoUser, NoUser)}
    /\ nextId' = nextId + 1
    /\ scr' = [scr EXCEPT !.pc = "stored"]
    /\ resp' = NoResp
    /\ UNCHANGED <<regs, now, registryH, notifyH, devs, pulls, today, lim, pul>>

ScreenTimeSendPersistFail ==
    /\ scr.pc = "built"
    /\ scr' = IdleH
    /\ resp' = ScreenTimeOk
    /\ UNCHANGED <<regs, notifs, nextId, now, registryH, notifyH,
                   devs, pulls, today, lim, pul>>

ScreenTimeRespond ==
    /\ scr.pc = "stored"
    /\ scr' = IdleH
    /\ resp' = ScreenTimeOk
    /\ UNCHANGED <<regs, notifs, nextId, now, registryH, notifyH,
                   devs, pulls, today, lim, pul>>

\* ---- POST /api/device/sync
\* set({...data, lastSynced}, {merge: true}): data.apps, when sent, replaces
\* the apps array; data.screenTime {totalMinutes, limit}, when sent, is merged
\* into screenTime
Sync(deviceId, data) ==
    /\ devs' = [devs EXCEPT ![deviceId] =
                  [exists |-> TRUE,
                   apps |-> IF data.hasApps THEN data.apps ELSE @.apps,
                   screenTime |-> IF data.screenTime.present
                                  THEN [@.screenTime EXCEPT
                                           !.present = TRUE,
                                           !.limit = data.screenTime.limit,
                                           !.totalMinutes = data.screenTime.totalMinutes]
                                  ELSE @.screenTime]]
    /\ resp' = [op |-> "sync", status |-> 200]
    /\ UNCHANGED <<regs, notifs, nextId, now, registryH, notifyH,
                   pulls, today, lim, scr, pul>>

\* the server's calendar date changes
Midnight ==
    /\ today < MaxDay
    /\ today' = today + 1
    /\ resp' = NoResp
    /\ UNCHANGED <<regs, notifs, nextId, now, registryH, notifyH,
                   devs, pulls, lim, scr, pul>>

\* ---- appUsageLimits/<deviceId>: {apps: {packageName: limitMinutes}}
EmptyMap == [q \in {} |-> 0]
NoPulls == [exists |-> FALSE, apps |-> EmptyMap]

\* (mutant) the key set whatever the limit
PullAppsAfter_AlwaysSet(apps, packageName, limitMinutes) ==
    [q \in DOMAIN apps \cup {packageName} |->
        IF q = packageName THEN limitMinutes[2] ELSE apps[q]]

\* delete apps[packageName] for null, undefined or <= 0, else
\* apps[packageName] = limitMinutes
PullAppsAfter(apps, packageName, limitMinutes) ==
    IF limitMinutes = Null \/ limitMinutes[2] <= 0
    THEN [q \in DOMAIN apps \ {packageName} |-> apps[q]]
    ELSE [q \in DOMAIN apps \cup {packageName} |->
            IF q = packageName THEN limitMinutes[2] ELSE apps[q]]

\* (mutant) the batch stored with its zero entries
FilteredApps_Unfiltered(apps, stored) ==
    [q \in {p \in DOMAIN apps : apps[p] # Null} |-> apps[q][2]]

\* (mutant) the batch merged into the stored map
FilteredApps_Merged(apps, stored) ==
    [q \in DOMAIN stored \cup {p \in DOMAIN apps : apps[p] # Null /\ apps[p][2] > 0} |->
        IF q \in DOMAIN apps /\ apps[q] # Null /\ apps[q][2] > 0
        THEN apps[q][2] ELSE stored[q]]

\* filteredApps: the entries with limit !== null && limit !== undefined && limit > 0
FilteredApps(apps, stored) ==
    [q \in {p \in DOMAIN apps : apps[p] # Null /\ apps[p][2] > 0} |-> apps[q][2]]

\* 400 'Missing required fields: deviceId, packageName'
PullReject ==
    /\ pul.pc = "idle"
    /\ resp' = [op |-> "setPullLimit", status |-> 400]
    /\ UNCHANGED <<regs, notifs, nextId, now, registryH, notifyH, usageS>>

\* const limitsDoc = await limitsRef.get(); apps = limitsDoc.data().apps || {}
PullRead(deviceId, packageName, limitMinutes) ==
    /\ pul.pc = "idle"
    /\ pul' = [pc |-> "read", deviceId |-> deviceId, packageName |-> packageName,
               limitMinutes |-> limitMinutes,
               apps |-> IF pulls[deviceId].exists THEN pulls[deviceId].apps
                        ELSE EmptyMap]
    /\ resp' = NoResp
    /\ UNCHANGED <<regs, notifs, nextId, now, registryH, notifyH,
                   devs, pulls, today, lim, scr>>

\* (mutant) the write also sets the limit of the embedded entries of that name
PullWrite_Reconciles ==
    /\ pul.pc = "read"
    /\ pulls' = [pulls EXCEPT ![pul.deviceId] =
                   [exists |-> TRUE,
                    apps |-> PullAppsAfter(pul.apps, pul.packageName, pul.limitMinutes)]]
    /\ devs' = [devs EXCEPT ![pul.deviceId].apps =
                  [i \in 1..Len(@) |->
                      IF @[i].name = pul.packageName
                      THEN [@[i] EXCEPT !.limit = pul.limitMinutes] ELSE @[i]]]
    /\ pul' = IdleH
    /\ resp' = [op |-> "setPullLimit", status |-> 200, deviceId |-> pul.deviceId,
                packageName |-> pul.packageName, limitMinutes |-> pul.limitMinutes,
                read |-> pul.apps]
    /\ UNCHANGED <<regs, notifs, nextId, now, registryH, notifyH, today, lim, scr>>

\* await limitsRef.set({apps, updatedAt}); res.json({success: true, ...})
PullWrite ==
    /\ pul.pc = "read"
    /\ pulls' = [pulls EXCEPT ![pul.deviceId] =
                   [exists |-> TRUE,
                    apps |-> PullAppsAfter(pul.apps, pul.packageName, pul.limitMinutes)]]
    /\ pul' = IdleH
    /\ resp' = [op |-> "setPullLimit", status |-> 200, deviceId |-> pul.deviceId,
                packageName |-> pul.packageName, limitMinutes |-> pul.limitMinutes,
                read |-> pul.apps]
    /\ UNCHANGED <<regs, notifs, nextId, now, registryH, notifyH,
                   devs, today, lim, scr>>

\* the set() rejects: 500 'Failed to set app usage limit'
PullWriteFail ==
    /\ pul.pc = "read"
    /\ pul' = IdleH
    /\ resp' = [op |-> "setPullLimit", status |-> 500]
    /\ UNCHANGED <<regs, notifs, nextId, now, registryH, notifyH,
                   devs, pulls, today, lim, scr>>

\* ---- POST /api/device/:deviceId/app-usage-limits/batch
\* 400 'Missing or invalid apps object'
BatchReject ==
    /\ resp' = [op |-> "batchSetPullLimits", status |-> 400]
    /\ UNCHANGED <<regs, notifs, nextId, now, registryH, notifyH, usageS>>

\* set({apps: filteredApps, updatedAt}) without merge
BatchSetPullLimits(deviceId, apps) ==
    /\ pulls' = [pulls EXCEPT ![deviceId] =
                   [exists |-> TRUE, apps |-> FilteredApps(apps, @.apps)]]
    /\ resp' = [op |-> "batchSetPullLimits", status |-> 200, deviceId |-> deviceId,
                apps |-> apps, before |-> pulls[deviceId].apps]
    /\ UNCHANGED <<regs, notifs, nextId, now, registryH, notifyH,
                   devs, today, lim, scr, pul>>

\* the set() rejects: 500 'Failed to batch update app usage limits'
BatchFail ==
    /\ resp' = [op |-> "batchSetPullLimits", status |-> 500]
    /\ UNCHANGED <<regs, notifs, nextId, now, registryH, notifyH, usageS>>

\* ---- GET /api/device/:deviceId/app-usage-limits
\* no document: {success: true, apps: {}}; else apps: data.apps || {}
GetPullLimits(deviceId) ==
    /\ resp' = [op |-> "getPullLimits", status |-> 200, deviceId |-> deviceId,
                apps |-> IF pulls[deviceId].exists THEN pulls[deviceId].apps
                         ELSE EmptyMap]
    /\ UNCHANGED <<regs, notifs, nextId, now, registryH, notifyH, usageS>>

\* ---- DELETE /api/device/:deviceId/app-usage-limits
ClearPullLimits(deviceId) ==
    /\ pulls' = [pulls EXCEPT ![deviceId] = NoPulls]
    /\ resp' = [op |-> "clearAllPullLimits", status |-> 200]
    /\ UNCHANGED <<regs, notifs, nextId, now, registryH, notifyH,
                   devs, today, lim, scr, pul>>

\* ------------------------------------------------------------------- Init
Init ==
    /\ regs = [d \in Devices |-> NoReg]
    /\ notifs = {}
    /\ nextId = 0
    /\ now = 0
    /\ reg = IdleH
    /\ lnk = IdleH
    /\ snd = IdleH
    /\ api = IdleH
    /\ sos = IdleH
    /\ mrk = IdleH
    /\ mar = IdleH
    /\ cln = IdleH
    /\ devs = [d \in LimitDevices |-> NoDev]
    /\ pulls = [d \in LimitDevices |-> NoPulls]
    /\ today = 1
    /\ lim = [k \in LimitCalls |-> IdleH]
    /\ scr = IdleH
    /\ pul = IdleH
    /\ resp = NoResp

\* ------------------------------------------ the notification dispatcher
\* register, link and the three operations that persist and push
Targets == {"p1", "c1", "c2"}
Registrations == {<<"p1", "parent">>, <<"c1", "child">>}
SendTypes == {"limit_set"}
Senders == {NoUser, "p1"}
Locations == {NoLocation, "here"}

Next ==
    \/ \E r \in Registrations : RegisterRead(r[1], "tok", r[2], NoFamily)
    \/ RegisterWrite
    \/ LinkWriteParent("p1", "c1")
    \/ LinkWriteChild
    \/ \E t \in Targets : SendTargetNotFound(t)
    \/ \E t \in Targets, ty \in SendTypes, f \in Senders : SendRead(t, ty, f)
    \/ SendReadFrom
    \/ SendPersist
    \/ SendPersistFail
    \/ SendPushOk
    \/ SendPushFail
    \/ SendNoToken
    \/ ApiReject
    \/ \E t \in Targets, dt \in DeviceTypes \cup {NoType} : ApiResolve(t, dt)
    \/ ApiPersist
    \/ ApiPersistFail
    \/ ApiReadToken
    \/ ApiPushOk
    \/ ApiPushFail
    \/ ApiNoToken
    \/ \E c \in Targets, l \in Locations : SosChildNotFound(c, l)
    \/ \E c \in Targets, l \in Locations : SosReadChild(c, l)
    \/ SosParentNotFound
    \/ SosReadParent
    \/ SosPushOk
    \/ SosPushFail
    \/ SosPersist
    \/ SosPersistFail

Spec == Init /\ [][Next]_vars

\* --------------------------------------------------- the read state
\* send, markRead, markAllRead, delete and the unread count
Users == {"p1", "c1"}
NotifIds == 1..MaxNotifs

NextRead ==
    \/ \E r \in {<<"p1", "parent">>, <<"c1", "child">>} :
          RegisterRead(r[1], "tok", r[2], NoFamily)
    \/ RegisterWrite
    \/ \E t \in Users : SendTargetNotFound(t)
    \/ \E t \in Users, ty \in SendTypes : SendRead(t, ty, NoUser)
    \/ SendPersist
    \/ SendPersistFail
    \/ SendPushOk
    \/ SendPushFail
    \/ \E u \in Users, dt \in DeviceTypes \cup {NoType} : UnreadCount(u, dt)
    \/ \E i \in NotifIds, dt \in DeviceTypes : MarkReadNotFound(i, dt)
    \/ \E i \in NotifIds, dt \in DeviceTypes : MarkReadGet(i, dt)
    \/ MarkReadUpdate
    \/ MarkReadUpdateFail
    \/ \E u \in Users : MarkAllReadSnap(u)
    \/ MarkAllReadCommit
    \/ MarkAllReadCommitFail
    \/ \E u \in Users : CreateNotification(u)
    \/ \E i \in NotifIds, dt \in DeviceTypes \cup {NoType} : DeleteNotification(i, dt)

SpecRead == Init /\ [][NextRead]_vars

\* ------------------------------------------------- retention cleanup
\* The store already holds the notifications of c1, a registered child:
\* `size` documents in childNotifications, created by earlier sends at the
\* times the pattern gives (document ids are unrelated to creation order).
CleanupSizes == {KeepCount - 1, KeepCount, KeepCount + 1, KeepCount + 2}
StoredPatterns == {"oldFirst", "newFirst", "mixed"}

StoredTs(pattern, i, k) ==
    CASE pattern = "oldFirst" -> (IF i <= k THEN 0 ELSE 1)
      [] pattern = "newFirst" -> (IF i <= k THEN 1 ELSE 0)
      [] OTHER -> (i + k) % 2

StoredDocs(size, pattern, k) ==
    {[id |-> i - size, coll |-> "childNotifications", userId |-> "c1",
      type |-> "limit_set", body |-> "given", read |-> FALSE,
      ts |-> StoredTs(pattern, i, k), fromParentId |-> NoUser, fromChildId |-> NoUser]
        : i \in 1..size}

InitCleanup ==
    /\ regs = [d \in Devices |->
                 IF d = "c1"
                 THEN [exists |-> TRUE, deviceType |-> "child", fcmToken |-> "tok",
                       familyId |-> NoFamily, linkedTo |-> NoUser, registeredAt |-> TRUE]
                 ELSE NoReg]
    /\ \E size \in CleanupSizes, pattern \in StoredPatterns, k \in {1, 2, KeepCount} :
          notifs = StoredDocs(size, pattern, k)
    /\ nextId = 0
    /\ now = 1
    /\ reg = IdleH
    /\ lnk = IdleH
    /\ snd = IdleH
    /\ api = IdleH
    /\ sos = IdleH
    /\ mrk = IdleH
    /\ mar = IdleH
    /\ cln = IdleH
    /\ devs = [d \in LimitDevices |-> NoDev]
    /\ pulls = [d \in LimitDevices |-> NoPulls]
    /\ today = 1
    /\ lim = [k \in LimitCalls |-> IdleH]
    /\ scr = IdleH
    /\ pul = IdleH
    /\ resp = NoResp

NextCleanup ==
    \/ \E dt \in DeviceTypes \cup {NoType} : CleanupStart("c1", dt)
    \/ CleanupSnap
    \/ CleanupNothing
    \/ CleanupCommit
    \/ CleanupCommitFail
    \/ SendRead("c1", "limit_set", NoUser)
    \/ SendPersist
    \/ SendPushOk
    \/ \E i \in {-1, 0, 1} : DeleteNotification(i, "child")
    \/ Tick

SpecCleanup == InitCleanup /\ [][NextCleanup]_vars

\* ---------------------------------------------- the registry on its own
RegisterUsers == {"p1", "c1"}
LinkPairs == {<<"p1", "c1">>, <<"p1", "c2">>, <<"c2", "c1">>}
Families == {NoFamily, "fam1"}

NextLink ==
    \/ \E u \in RegisterUsers, t \in {NoToken, "tok"}, dt \in DeviceTypes \cup {NoType} :
          RegisterReject(u, t, dt)
    \/ \E u \in RegisterUsers, dt \in DeviceTypes, f \in Families :
          RegisterRead(u, "tok", dt, f)
    \/ RegisterWrite
    \/ RegisterWriteFail
    \/ \E l \in LinkPairs : LinkWriteParent(l[1], l[2])
    \/ \E l \in LinkPairs : LinkWriteParentFail(l[1], l[2])
    \/ LinkWriteChild
    \/ LinkWriteChildFail

SpecLink == Init /\ [][NextLink]_vars

\* ------------------------------------------------- the usage limits
\* app-limit against the child's sync reports, over midnight
Limits == {Null, Num(0), Num(60)}
Usages == {59, 60}

\* an entry as the child reports it: name, usage, limit, blocked and, when
\* the client echoes it, lastResetDate
SyncEntry(appName, usage, lastResetDate, day) ==
    [name |-> appName, limit |-> Num(60), usage |-> usage, blocked |-> FALSE,
     lastResetDate |-> lastResetDate, reportedOn |-> day, writer |-> "sync"]

SyncedApps(day) ==
    {<<SyncEntry("TikTok", u, r, day)>> : u \in Usages, r \in {NoDate, day}}
    \cup {<<SyncEntry("Chrome", 25, NoDate, day), SyncEntry("TikTok", 59, r, day)>> :
             r \in {NoDate, day}}

SyncedScreenTime == [present |-> TRUE, limit |-> Num(300), totalMinutes |-> 245]

\* a report of the apps only, a report of the screen time only
SyncData(day) ==
    {[hasApps |-> TRUE, apps |-> l, screenTime |-> NoScreenTime] : l \in SyncedApps(day)}

SyncScreenData ==
    {[hasApps |-> FALSE, apps |-> <<>>, screenTime |-> SyncedScreenTime]}

NextLimits ==
    \/ RegisterRead("c1", "tok", "child", NoFamily)
    \/ RegisterWrite
    \/ AppLimitReject(1)
    \/ \E l \in Limits : AppLimitRead(1, "c1", "TikTok", l)
    \/ AppLimitWrite(1)
    \/ AppLimitWriteFail(1)
    \/ AppLimitCheckReg(1)
    \/ AppLimitSendRead(1)
    \/ AppLimitSendPersist(1)
    \/ AppLimitSendPersistFail(1)
    \/ AppLimitRespond(1)
    \/ \E data \in SyncData(today) : Sync("c1", data)
    \/ Midnight

SpecLimits == Init /\ [][NextLimits]_vars

\* screen-time-limit against the child's sync reports, over midnight
ScreenLimits == {Null, Num(120)}

NextScreen ==
    \/ RegisterRead("c1", "tok", "child", NoFamily)
    \/ RegisterWrite
    \/ \E l \in ScreenLimits : ScreenTimeRead("c1", l)
    \/ ScreenTimeWrite
    \/ ScreenTimeWriteFail
    \/ ScreenTimeCheckReg
    \/ ScreenTimeSendRead
    \/ ScreenTimeSendPersist
    \/ ScreenTimeSendPersistFail
    \/ ScreenTimeRespond
    \/ \E data \in SyncScreenData : Sync("c1", data)
    \/ Midnight

SpecScreen == Init /\ [][NextScreen]_vars

\* the pull-style limits map
Packages == {"com.a", "com.b"}
PullLimits == {Null, Num(-5), Num(0), Num(30), Num(45)}
BatchMaps == UNION {[S -> {Null, Num(0), Num(30), Num(45)}] : S \in SUBSET Packages}

NextPull ==
    \/ PullReject
    \/ \E p \in Packages, l \in PullLimits : PullRead("c1", p, l)
    \/ PullWrite
    \/ PullWriteFail
    \/ BatchReject
    \/ \E apps \in BatchMaps : BatchSetPullLimits("c1", apps)
    \/ BatchFail
    \/ ClearPullLimits("c1")
    \/ GetPullLimits("c1")

SpecPull == Init /\ [][NextPull]_vars

\* ------------------------------------------------- the directional helpers
\* limit-set (parent to child, ids from the request), app-installed (child to
\* parent, peer from the registration) and remote-lock over register and link
HelperPairs == {<<"p1", "c1">>}
HelperLinks == {<<"p1", "c1">>, <<"c1", "p1">>}

NextHelpers ==
    \/ \E r \in Registrations : RegisterRead(r[1], "tok", r[2], NoFamily)
    \/ RegisterWrite
    \/ \E l \in HelperLinks : LinkWriteParent(l[1], l[2])
    \/ LinkWriteChild
    \/ HelperReject
    \/ \E pc \in HelperPairs : SendTargetNotFound(pc[2])
    \/ \E pc \in HelperPairs : SendRead(pc[2], "limit_set", pc[1])
    \/ \E pc \in HelperPairs : ToParentNotFound(pc[2], "app_installed")
    \/ \E pc \in HelperPairs : ToParentResolve(pc[2], "app_installed")
    \/ \E pc \in HelperPairs : RemoteLockNotFound(pc[1], pc[2], "device_lock")
    \/ \E pc \in HelperPairs : RemoteLockForbidden(pc[1], pc[2], "device_lock")
    \/ \E pc \in HelperPairs : RemoteLockVerify(pc[1], pc[2], "device_lock")
    \/ PeerTargetNotFound
    \/ PeerSendRead
    \/ SendReadFrom
    \/ SendPersist
    \/ SendPersistFail
    \/ SendPushOk
    \/ SendPushFail
    \/ SendNoToken

SpecHelpers == Init /\ [][NextHelpers]_vars

\* ------------------------------------------ calls that all succeed
\* register and link with no store failure, re-linking included
NextPair ==
    \/ \E u \in RegisterUsers, dt \in DeviceTypes : RegisterRead(u, "tok", dt, NoFamily)
    \/ RegisterWrite
    \/ \E l \in LinkPairs : LinkWriteParent(l[1], l[2])
    \/ LinkWriteChild

SpecPair == Init /\ [][NextPair]_vars

\* ------------------------------------------ the life of a notification
\* send, create, markRead, markAllRead, cleanup and delete over a store that
\* already holds KeepCount + 1 notifications of c1, a registered child, in
\* childNotifications and one unread document of c1 in 'notifications'
InitFlag ==
    /\ regs = [d \in Devices |->
                 IF d = "c1"
                 THEN [exists |-> TRUE, deviceType |-> "child", fcmToken |-> "tok",
                       familyId |-> NoFamily, linkedTo |-> NoUser, registeredAt |-> TRUE]
                 ELSE NoReg]
    /\ notifs = StoredDocs(KeepCount + 1, "mixed", 1)
                   \cup {[id |-> -(KeepCount + 1), coll |-> LegacyCollection,
                          userId |-> "c1", type |-> "info", body |-> "given",
                          read |-> FALSE, ts |-> 0,
                          fromParentId |-> NoUser, fromChildId |-> NoUser]}
    /\ nextId = 0
    /\ now = 1
    /\ reg = IdleH
    /\ lnk = IdleH
    /\ snd = IdleH
    /\ api = IdleH
    /\ sos = IdleH
    /\ mrk = IdleH
    /\ mar = IdleH
    /\ cln = IdleH
    /\ devs = [d \in LimitDevices |-> NoDev]
    /\ pulls = [d \in LimitDevices |-> NoPulls]
    /\ today = 1
    /\ lim = [k \in LimitCalls |-> IdleH]
    /\ scr = IdleH
    /\ pul = IdleH
    /\ resp = NoResp

NextFlag ==
    \/ SendRead("c1", "limit_set", NoUser)
    \/ SendPersist
    \/ SendPushOk
    \/ CreateNotification("c1")
    \/ \E i \in {-1, 0, 1} : MarkReadGet(i, "child")
    \/ MarkReadUpdate
    \/ MarkReadUpdateFail
    \/ MarkAllReadSnap("c1")
    \/ MarkAllReadCommit
    \/ CleanupStart("c1", NoType)
    \/ CleanupSnap
    \/ CleanupNothing
    \/ CleanupCommit
    \/ \E i \in {0, 1} : DeleteNotification(i, "child")

SpecFlag == InitFlag /\ [][NextFlag]_vars

\* ------------------------------------------ two app-limit calls at once
\* one call for TikTok and one for Chrome on the same unregistered device
NextRace ==
    \/ \E l \in Limits : AppLimitRead(1, "c1", "TikTok", l)
    \/ \E l \in Limits : AppLimitRead(2, "c1", "Chrome", l)
    \/ \E k \in LimitCalls : AppLimitWrite(k)
    \/ \E k \in LimitCalls : AppLimitCheckReg(k)
    \/ Midnight

SpecRace == Init /\ [][NextRace]_vars

\* ------------------------------------------ the entries a call leaves alone
\* app-limit for TikTok and screen-time-limit against reports that have no
\* TikTok entry, or two of them
FrameApps(day) ==
    {<<SyncEntry("Chrome", 25, day, day)>>,
     <<SyncEntry("TikTok", 59, day, day), SyncEntry("Chrome", 25, day, day),
       SyncEntry("TikTok", 60, day, day)>>}

FrameData(day) ==
    {[hasApps |-> TRUE, apps |-> l, screenTime |-> NoScreenTime] : l \in FrameApps(day)}
    \cup SyncScreenData

NextFrame ==
    \/ AppLimitRead(1, "c1", "TikTok", Num(0))
    \/ AppLimitWrite(1)
    \/ AppLimitCheckReg(1)
    \/ ScreenTimeRead("c1", Num(120))
    \/ ScreenTimeWrite
    \/ ScreenTimeCheckReg
    \/ \E data \in FrameData(today) : Sync("c1", data)
    \/ Midnight

SpecFrame == Init /\ [][NextFrame]_vars

\* ------------------------------------------ the side effects of a limit
\* app-limit and screen-time-limit with their notification to a device that
\* may be registered, beside the pull-style map of the same package
NextEffects ==
    \/ RegisterRead("c1", "tok", "child", NoFamily)
    \/ RegisterWrite
    \/ AppLimitRead(1, "c1", "TikTok", Num(60))
    \/ AppLimitWrite(1)
    \/ AppLimitWriteFail(1)
    \/ AppLimitCheckReg(1)
    \/ AppLimitSendRead(1)
    \/ AppLimitSendPersist(1)
    \/ AppLimitSendPersistFail(1)
    \/ AppLimitRespond(1)
    \/ ScreenTimeRead("c1", Num(120))
    \/ ScreenTimeWrite
    \/ ScreenTimeWriteFail
    \/ ScreenTimeCheckReg
    \/ ScreenTimeSendRead
    \/ ScreenTimeSendPersist
    \/ ScreenTimeSendPersistFail
    \/ ScreenTimeRespond
    \/ \E l \in {Null, Num(30)} : PullRead("c1", "TikTok", l)
    \/ PullWrite
    \/ BatchSetPullLimits("c1", [p \in {"Chrome"} |-> Num(45)])
    \/ ClearPullLimits("c1")

SpecEffects == Init /\ [][NextEffects]_vars

\* ------------------------------------------ remote lock and unlock
\* the two commands for a linked pair, an unlinked pair and the hardcoded pair
LockPairs == {<<"p1", "c1">>, <<"c2", "c1">>, <<HardcodedParent, HardcodedChild>>}
LockTypes == {"device_lock", "device_unlock"}

NextLock ==
    \/ \E u \in {"c1", HardcodedChild} : RegisterRead(u, "tok", "child", NoFamily)
    \/ RegisterWrite
    \/ LinkWriteParent("p1", "c1")
    \/ LinkWriteChild
    \/ HelperReject
    \/ \E pc \in LockPairs, ty \in LockTypes : RemoteLockHardcoded(pc[1], pc[2], ty)
    \/ \E pc \in LockPairs, ty \in LockTypes : RemoteLockNotFound(pc[1], pc[2], ty)
    \/ \E pc \in LockPairs, ty \in LockTypes : RemoteLockForbidden(pc[1], pc[2], ty)
    \/ \E pc \in LockPairs, ty \in LockTypes : RemoteLockVerify(pc[1], pc[2], ty)
    \/ PeerTargetNotFound
    \/ PeerSendRead
    \/ SendReadFrom
    \/ SendPersist
    \/ SendPersistFail
    \/ SendPushOk
    \/ SendPushFail
    \/ SendNoToken

SpecLock == Init /\ [][NextLock]_vars

\* ================================================================ claims
PartitionOf(deviceType) ==
    IF deviceType = "parent" THEN "parentNotifications" ELSE "childNotifications"

StoredAt(coll, id) == {n \in notifs : n.coll = coll /\ n.id = id}

\* the last step answered a send or a POST /send with success
SendSucceeded ==
    \/ (resp.op = "send" /\ resp.status = "ok")
    \/ (resp.op = "apiSend" /\ resp.status = 200)

\* C1 (as claimed): at the moment a link call reports success, both records
\* hold each other's id in linkedTo, whatever register calls interleave with
\* link's two writes.
C1_LinkSymmetricAtReturn ==
    (resp.op = "link" /\ resp.status = 200)
        => (regs[resp.parentId].linkedTo = resp.childId
            /\ regs[resp.childId].linkedTo = resp.parentId)

C3_PersistBeforePush ==
    /\ (sos.pc # "idle" /\ sos.push # "none") => sos.id # 0
    /\ SendSucceeded
          => \E n \in StoredAt(resp.collection, resp.notificationId) : ~n.read
    /\ (resp.op = "sos" /\ resp.status = 200)
          => \E n \in StoredAt("parentNotifications", resp.notificationId) : ~n.read

\* C4 (as claimed): an SOS from a child whose linked parent has a
\* registration is never turned away at the parent check: the missing
\* pushAddress is handled as in send.
C4_SosNeverBlockedByPush ==
    (/\ resp.op = "sos"
     /\ resp.error = "Parent device not found or not registered for notifications")
        => ~regs[resp.parentId].exists

\* C5 (as claimed): with p and c linked to each other, an SOS from c without
\* location that the store accepts persists one sos notification for p in
\* parentNotifications whose body says the location is not available.
C5_SosAfterLink ==
    (/\ resp.op = "sos"
     /\ resp.location = NoLocation
     /\ resp.status # 500
     /\ regs[resp.childId].exists
     /\ regs[resp.childId].linkedTo # NoUser
     /\ regs[regs[resp.childId].linkedTo].linkedTo = resp.childId)
        => /\ resp.status = 200
           /\ \E n \in StoredAt("parentNotifications", resp.notificationId) :
                 /\ n.type = "sos"
                 /\ n.userId = regs[resp.childId].linkedTo
                 /\ n.body = "Your child needs immediate help! Location not available"

C7_PartitionByRegisteredType ==
    /\ snd.pc = "stored"
          => \E n \in StoredAt(PartitionOf(snd.tgtType), snd.id) : n.userId = snd.target
    /\ api.pc = "stored"
          => \E n \in StoredAt(PartitionOf(api.seenType), api.id) : n.userId = api.target

\* C7 (amended): sendNotificationToUser stores by the recipient's registered
\* type (never the sender's); POST /send stores by the deviceType the caller
\* supplies and only without one by the recipient's registered type.
C7_PartitionByCallerThenRegisteredType ==
    /\ snd.pc = "stored"
          => \E n \in StoredAt(PartitionOf(snd.tgtType), snd.id) : n.userId = snd.target
    /\ api.pc = "stored"
          => \E n \in StoredAt(PartitionOf(IF api.deviceType # NoType
                                           THEN api.deviceType ELSE api.seenType),
                               api.id) : n.userId = api.target

C7_Witness ==
    /\ api.pc = "stored" /\ api.deviceType = "parent" /\ api.seenType = "child"
    /\ StoredAt("parentNotifications", api.id) # {}

\* C8 (as claimed): no notification is persisted for a target that has no
\* registration.
C8_UnregisteredTargetPersistsNothing ==
    /\ snd.pc = "stored" => regs[snd.target].exists
    /\ api.pc = "stored" => api.seenExists

\* C8 (amended): sendNotificationToUser fails with 'Target user not found' and
\* persists nothing for a target without registration; POST /send does not
\* look the target up and persists the notification in the partition the
\* caller names, childNotifications by default.
C8_OnlyHelperRejectsUnregistered ==
    /\ snd.pc = "stored" => regs[snd.target].exists
    /\ (resp.op = "send" /\ resp.status = "TargetNotFound")
          => /\ ~regs[resp.target].exists
             /\ \A n \in notifs : n.userId = resp.target => n.type \notin SendTypes
    /\ (api.pc = "stored" /\ ~api.seenExists)
          => \E n \in StoredAt(IF api.deviceType = "parent" THEN "parentNotifications"
                               ELSE "childNotifications", api.id) :
                 n.userId = api.target

C8_Witness ==
    /\ api.pc = "stored" /\ ~api.seenExists /\ api.deviceType = NoType
    /\ StoredAt("childNotifications", api.id) # {}

\* C9 (as claimed): when read-all reports success, every notification of the
\* user that was unread in a partition at its snapshot is read.
C9_MarkAllReadClearsUnread ==
    (resp.op = "markAllRead" /\ resp.status = 200)
        => \A n \in notifs :
              (n.coll \in Partitions /\ n.id \in resp.unreadThen) => n.read

\* C10: the batch cleanup builds leaves min(30, total) of the user's
\* notifications of the partition, every notification it deletes is no more
\* recent than every one it keeps, its commit removes nothing else, and with
\* at most 30 notifications it deletes nothing.
C10_Mine == {n \in notifs : n.coll = cln.coll /\ n.userId = cln.userId}

C10_Chosen(h) == {h.toDelete[i].id : i \in 1..Len(h.toDelete)}

C10_CleanupStep ==
    /\ (cln.pc = "resolved" /\ cln'.pc = "snap")
          => /\ C10_Chosen(cln') \subseteq {n.id : n \in C10_Mine}
             /\ Cardinality(C10_Mine) - Cardinality(C10_Chosen(cln'))
                  = Min(KeepCount, Cardinality(C10_Mine))
             /\ \A d \in C10_Mine, k \in C10_Mine :
                   (d.id \in C10_Chosen(cln') /\ k.id \notin C10_Chosen(cln'))
                      => d.ts <= k.ts
    /\ (cln.pc = "snap" /\ resp'.op = "cleanup" /\ resp'.status = 200)
          => /\ notifs \ notifs' \subseteq {n \in C10_Mine : n.id \in C10_Chosen(cln)}
             /\ resp'.deletedCount = Cardinality(C10_Chosen(cln))
    /\ (cln.pc = "resolved" /\ Cardinality(C10_Mine) <= KeepCount /\ cln'.pc # "resolved")
          => /\ cln'.pc = "idle"
             /\ resp'.op = "cleanup" /\ resp'.deletedCount = 0
             /\ notifs' = notifs

C10_CleanupKeepsRecent == [][C10_CleanupStep]_vars

C10_Witness ==
    /\ resp.op = "cleanup" /\ resp.status = 200 /\ resp.deletedCount = 2
    /\ Cardinality({n \in notifs : n.coll = "childNotifications" /\ n.userId = "c1"})
         >= KeepCount

\* the write step of app-limit call k
C11_Writes(k) == lim[k].pc = "read" /\ lim'[k].pc = "written"

\* the entry the call read for its app, and the entry stored after its write
C11_ReadIndex(k) == FindIndex(lim[k].doc.apps, lim[k].appName)

C11_ReadEntry(k) == lim[k].doc.apps[C11_ReadIndex(k)]

C11_Written(k) ==
    devs'[lim[k].deviceId].apps[FindIndex(devs'[lim[k].deviceId].apps, lim[k].appName)]

\* C11 (as claimed): a setAppLimit call for an entry that setAppLimit wrote
\* last, on the same calendar date and with the same limit, with nothing
\* written to the device in between, leaves usage and blocked as they were
\* after that first call.
C11_Step ==
    \A k \in LimitCalls :
        (/\ C11_Writes(k)
         /\ lim[k].doc.exists
         /\ C11_ReadIndex(k) > 0
         /\ devs[lim[k].deviceId] = lim[k].doc
         /\ C11_ReadEntry(k).writer = "limit"
         /\ C11_ReadEntry(k).limit = lim[k].limit
         /\ C11_ReadEntry(k).lastResetDate = lim[k].today)
            => /\ C11_Written(k).usage = C11_ReadEntry(k).usage
               /\ C11_Written(k).blocked = C11_ReadEntry(k).blocked

C11_SetAppLimitIdempotent == [][C11_Step]_vars

\* C12: a setAppLimit call that read an entry for its app whose lastResetDate
\* is not the call's today stores that entry with usage 0, blocked false,
\* lastResetDate today and the new limit, whatever usage and limit it had.
C12_Step ==
    \A k \in LimitCalls :
        (/\ C11_Writes(k)
         /\ lim[k].doc.exists
         /\ C11_ReadIndex(k) > 0
         /\ C11_ReadEntry(k).lastResetDate # lim[k].today)
            => /\ C11_Written(k).usage = 0
               /\ C11_Written(k).blocked = FALSE
               /\ C11_Written(k).lastResetDate = lim[k].today
               /\ C11_Written(k).limit = lim[k].limit

C12_DailyReset == [][C12_Step]_vars

C12_Witness ==
    /\ lim[1].pc = "written"
    /\ lim[1].doc.exists
    /\ FindIndex(lim[1].doc.apps, lim[1].appName) > 0
    /\ LET e == lim[1].doc.apps[FindIndex(lim[1].doc.apps, lim[1].appName)]
           w == devs[lim[1].deviceId].apps[FindIndex(devs[lim[1].deviceId].apps,
                                                     lim[1].appName)]
       IN /\ e.usage = 59
          /\ e.lastResetDate = lim[1].today - 1
          /\ e.lastResetDate # NoDate
          /\ w.usage = 0 /\ ~w.blocked /\ w.lastResetDate = lim[1].today

\* C13 (as claimed): a setAppLimit call that read an entry carrying usage
\* for today -- lastResetDate is today, or a sync reported its usage today --
\* leaves the usage unchanged and stores blocked = (limit # null and
\* usage >= limit).
C13_Step ==
    \A k \in LimitCalls :
        (/\ C11_Writes(k)
         /\ lim[k].doc.exists
         /\ C11_ReadIndex(k) > 0
         /\ \/ C11_ReadEntry(k).lastResetDate = lim[k].today
            \/ C11_ReadEntry(k).reportedOn = lim[k].today)
            => /\ C11_Written(k).usage = C11_ReadEntry(k).usage
               /\ C11_Written(k).blocked =
                     (lim[k].limit # Null /\ C11_ReadEntry(k).usage >= lim[k].limit[2])

C13_UsagePreservedSameDay == [][C13_Step]_vars

\* C14: the write of setScreenTimeLimit stores the given limit, stamps
\* lastResetDate with the call's today, and stores totalMinutes 0 when the
\* document it read was absent or had another (or no) lastResetDate, and the
\* totalMinutes it read otherwise: a second call on the same day resets nothing.
C14_Step ==
    (scr.pc = "read" /\ scr'.pc = "written")
        => LET before == scr.doc.screenTime
               after == devs'[scr.deviceId].screenTime
           IN /\ after.limit = scr.limit
              /\ after.lastResetDate = scr.today
              /\ (scr.doc.exists /\ before.lastResetDate = scr.today)
                    => after.totalMinutes = before.totalMinutes
              /\ ~(scr.doc.exists /\ before.lastResetDate = scr.today)
                    => after.totalMinutes = 0

C14_ScreenTimeReset == [][C14_Step]_vars

C14_Witness ==
    /\ scr.pc = "written"
    /\ scr.doc.exists
    /\ scr.doc.screenTime.lastResetDate = scr.today
    /\ scr.doc.screenTime.totalMinutes = 245
    /\ devs[scr.deviceId].screenTime.totalMinutes = 245
    /\ devs[scr.deviceId].screenTime.limit = scr.limit

\* C15 (as claimed): a directional helper persists a notification only when
\* the sender has a registration with a linkedTo; otherwise it fails and
\* persists nothing.
C15_HelpersResolvePeer ==
    (snd.pc = "stored" /\ snd.from # NoUser)
        => (regs[snd.from].exists /\ regs[snd.from].linkedTo # NoUser)

\* C16 (as claimed): register's write leaves the linkedTo of an existing
\* registration as it was immediately before the write, also when a link call
\* wrote the record between register's read and its write.
C16_Step ==
    (/\ reg.pc = "read"
     /\ resp'.op = "register"
     /\ resp'.status = 200
     /\ regs[reg.userId].exists)
        => regs'[reg.userId].linkedTo = regs[reg.userId].linkedTo

C16_RegisterKeepsLinkedTo == [][C16_Step]_vars

\* C19 (as claimed): whenever no call is in flight, after successful register
\* and link calls only, A.linkedTo = B implies B.linkedTo = A for all devices.
C19_PairingSymmetry ==
    (reg.pc = "idle" /\ lnk.pc = "idle")
        => \A a \in Devices, b \in Devices :
              regs[a].linkedTo = b => regs[b].linkedTo = a

\* C20: link's first write stores linkedTo = childId in the parent record
\* and touches no other record; when the second write fails the call answers
\* with a failure and changes no registration (the first write is not undone,
\* the child record is as it was); and no step repairs the pairing by
\* itself: a linkedTo changes only by a link write to that record or by the
\* write of a register call for that device.
C20_Step ==
    /\ (lnk.pc = "idle" /\ lnk'.pc = "w1")
          => /\ regs'[lnk'.parentId].linkedTo = lnk'.childId
             /\ \A d \in Devices \ {lnk'.parentId} : regs'[d] = regs[d]
    /\ (lnk.pc = "w1" /\ lnk'.pc = "idle" /\ resp'.op = "link" /\ resp'.status = 500)
          => regs' = regs
    /\ \A d \in Devices :
          regs'[d].linkedTo # regs[d].linkedTo
             => \/ (lnk.pc = "idle" /\ lnk'.pc = "w1" /\ lnk'.parentId = d)
                \/ (/\ lnk.pc = "w1" /\ lnk.childId = d
                    /\ resp'.op = "link" /\ resp'.status = 200)
                \/ (reg.pc = "read" /\ reg.userId = d /\ resp'.op = "register")

C20_LinkPartialFailure == [][C20_Step]_vars

C20_Witness ==
    /\ resp.op = "link" /\ resp.status = 500 /\ resp.stage = "child"
    /\ regs[resp.parentId].linkedTo = resp.childId
    /\ regs[resp.childId].linkedTo # resp.parentId

\* C17: when setPullLimit answers success the stored map has no key
\* packageName if limitMinutes is null or <= 0 and maps packageName to
\* limitMinutes otherwise, and every other key is there with the value it had
\* in the map the call read.
C17_SetPullLimit ==
    (resp.op = "setPullLimit" /\ resp.status = 200)
        => LET after == pulls[resp.deviceId].apps
               before == resp.read
               p == resp.packageName
           IN /\ pulls[resp.deviceId].exists
              /\ IF resp.limitMinutes = Null \/ resp.limitMinutes[2] <= 0
                 THEN p \notin DOMAIN after
                 ELSE p \in DOMAIN after /\ after[p] = resp.limitMinutes[2]
              /\ \A q \in Packages \ {p} :
                    /\ q \in DOMAIN after <=> q \in DOMAIN before
                    /\ q \in DOMAIN before => after[q] = before[q]

C17_Witness ==
    /\ resp.op = "setPullLimit" /\ resp.status = 200
    /\ resp.limitMinutes = Num(0)
    /\ DOMAIN resp.read = Packages
    /\ DOMAIN pulls[resp.deviceId].apps = Packages \ {resp.packageName}

\* C18: when batchSetPullLimits answers success the stored map is exactly
\* the entries of the given map whose limit is positive: keys that were stored
\* before and are not among them are gone.
C18_BatchOverwrites ==
    (resp.op = "batchSetPullLimits" /\ resp.status = 200)
        => LET after == pulls[resp.deviceId].apps
               positive == {p \in DOMAIN resp.apps :
                               resp.apps[p] # Null /\ resp.apps[p][2] > 0}
           IN /\ pulls[resp.deviceId].exists
              /\ DOMAIN after = positive
              /\ \A p \in positive : after[p] = resp.apps[p][2]
              /\ \A q \in DOMAIN resp.before \ positive : q \notin DOMAIN after

C18_Witness ==
    /\ resp.op = "batchSetPullLimits" /\ resp.status = 200
    /\ DOMAIN resp.before = {"com.a"}
    /\ DOMAIN resp.apps = Packages
    /\ resp.apps["com.a"] = Num(0)
    /\ DOMAIN pulls[resp.deviceId].apps = {"com.b"}

\* C21: a notification is created unread, and no step turns a read
\* notification into an unread one: a document that is read stays read for as
\* long as it is stored.
C21_Step ==
    /\ \A n \in notifs' :
          StoredAt(n.coll, n.id) = {} => n.read = FALSE
    /\ \A n \in notifs, n2 \in notifs' :
          (n2.coll = n.coll /\ n2.id = n.id /\ n.read) => n2.read

C21_ReadIsOneWay == [][C21_Step]_vars

\* a cleanup has deleted while a read document of each kind and an unread
\* one sent since are stored
C21_Witness ==
    /\ resp.op = "cleanup" /\ resp.status = 200 /\ resp.deletedCount > 0
    /\ \E n \in notifs : n.coll = "childNotifications" /\ n.read
    /\ \E n \in notifs : n.coll = LegacyCollection /\ n.read
    /\ \E n \in notifs : n.id > 0 /\ ~n.read

\* C22: the commit of a cleanup leaves every document that was not in its
\* snapshot stored and as it was, and the commit of a markAllRead leaves every
\* document that was not in its snapshot stored and as it was: a notification
\* inserted after the snapshot is neither deleted nor marked read.
C22_Step ==
    /\ (cln.pc = "snap" /\ cln'.pc = "idle")
          => \A n \in notifs :
                ~(n.coll = cln.coll
                  /\ \E i \in 1..Len(cln.notifications) : cln.notifications[i].id = n.id)
                   => n \in notifs'
    /\ (mar.pc = "snap" /\ mar'.pc = "idle")
          => \A n \in notifs :
                ~(n.coll = LegacyCollection /\ n.id \in mar.refs) => n \in notifs'

C22_SnapshotOnly == [][C22_Step]_vars

\* a cleanup has deleted, and more documents are stored than its snapshot
\* kept: one was inserted between the snapshot and the commit and is unread
C22_Witness ==
    /\ resp.op = "cleanup" /\ resp.status = 200 /\ resp.deletedCount > 0
    /\ Cardinality({n \in notifs : n.coll = "childNotifications" /\ n.userId = "c1"})
          > resp.remainingCount
    /\ \E n \in notifs : n.coll = "childNotifications" /\ n.id > 0 /\ ~n.read

\* C23: the write of an app-limit call stores the list of the call's own
\* read with the call's entry updated or appended, whatever was stored in
\* between: an entry another call wrote after that read is not in it.
C23_Step ==
    \A k \in LimitCalls :
        (lim[k].pc = "read" /\ lim'[k].pc = "written")
            => LET after == devs'[lim[k].deviceId].apps
                   read == lim[k].doc.apps
               IN /\ Len(after) \in {Len(read), Len(read) + 1}
                  /\ \A i \in 1..Len(after) :
                        after[i].name # lim[k].appName
                           => (i <= Len(read) /\ after[i] = read[i])

C23_LastWriteWins == [][C23_Step]_vars

\* call 2 has answered success, call 1 is past its write of a TikTok entry
\* and can only answer success, and the stored list has no TikTok entry
C23_Witness ==
    /\ resp.op = "appLimit" /\ resp.status = 200 /\ resp.call = 2
    /\ lim[1].pc = "written" /\ lim[1].appName = "TikTok"
    /\ devs["c1"].exists
    /\ FindIndex(devs["c1"].apps, "TikTok") = 0
    /\ FindIndex(devs["c1"].apps, "Chrome") > 0

\* C24: the write of an app-limit call whose read found no entry for the
\* app stores an entry with the given limit, usage 0, blocked false and
\* lastResetDate the call's today: alone when the read found no document,
\* appended after the entries of the read, all kept, otherwise.
C24_Entry(k) ==
    [name |-> lim[k].appName, limit |-> lim[k].limit, usage |-> 0,
     blocked |-> FALSE, lastResetDate |-> lim[k].today]

C24_Fields(e) ==
    [name |-> e.name, limit |-> e.limit, usage |-> e.usage,
     blocked |-> e.blocked, lastResetDate |-> e.lastResetDate]

C24_Step ==
    \A k \in LimitCalls :
        (/\ lim[k].pc = "read" /\ lim'[k].pc = "written"
         /\ FindIndex(lim[k].doc.apps, lim[k].appName) = 0)
            => LET after == devs'[lim[k].deviceId].apps
                   read == lim[k].doc.apps
               IN /\ devs'[lim[k].deviceId].exists
                  /\ Len(after) = Len(read) + 1
                  /\ C24_Fields(after[Len(after)]) = C24_Entry(k)
                  /\ \A i \in 1..Len(read) : after[i] = read[i]

C24_NewEntryAppended == [][C24_Step]_vars

C24_Witness ==
    /\ lim[1].pc = "written" /\ lim[1].limit = Num(0)
    /\ Len(devs["c1"].apps) = 2
    /\ devs["c1"].apps[1].name = "Chrome" /\ devs["c1"].apps[1].usage = 25
    /\ C24_Fields(devs["c1"].apps[2]) = C24_Entry(1)

\* C25: the write of an app-limit call leaves every entry of its read but
\* the first one with the app's name as it was, entries of an earlier day and
\* later entries of the same name included, and leaves the stored screen time
\* as it was; the write of a screen-time-limit call leaves the stored entries
\* as they were.
C25_Step ==
    /\ \A k \in LimitCalls :
          (lim[k].pc = "read" /\ lim'[k].pc = "written" /\ lim[k].doc.exists)
              => LET after == devs'[lim[k].deviceId].apps
                     read == lim[k].doc.apps
                 IN /\ Len(after) >= Len(read)
                    /\ \A i \in 1..Len(read) :
                          i # FindIndex(read, lim[k].appName) => after[i] = read[i]
                    /\ devs'[lim[k].deviceId].screenTime
                          = devs[lim[k].deviceId].screenTime
    /\ (scr.pc = "read" /\ scr'.pc = "written")
          => devs'[scr.deviceId].apps = devs[scr.deviceId].apps

C25_LazyPerEntry == [][C25_Step]_vars

\* the call has written on day 2 a list reported on day 1: the first TikTok
\* entry is of today, Chrome and the second TikTok entry are as reported
C25_Witness ==
    /\ lim[1].pc = "written" /\ lim[1].today = 2
    /\ Len(devs["c1"].apps) = 3
    /\ devs["c1"].apps[1].name = "TikTok" /\ devs["c1"].apps[1].lastResetDate = 2
    /\ devs["c1"].apps[1].usage = 0
    /\ devs["c1"].apps[2] = SyncEntry("Chrome", 25, 1, 1)
    /\ devs["c1"].apps[3] = SyncEntry("TikTok", 60, 1, 1)
    /\ devs["c1"].screenTime.present

\* C26: once the limit write of an app-limit or screen-time-limit call has
\* succeeded, the steps of its notification do not touch the device record
\* and the call can end only by answering success, whether the device is
\* registered or not and whether the notification is persisted or not.
C26_Step ==
    /\ \A k \in LimitCalls :
          (lim[k].pc \in {"written", "notify", "built", "stored"} /\ lim'[k] # lim[k])
              => /\ devs' = devs
                 /\ lim'[k].pc = "idle"
                       => (resp'.op = "appLimit" /\ resp'.status = 200)
    /\ (scr.pc \in {"written", "notify", "built", "stored"} /\ scr' # scr)
          => /\ devs' = devs
             /\ scr'.pc = "idle" => (resp'.op = "screenTime" /\ resp'.status = 200)

C26_NotificationBestEffort == [][C26_Step]_vars

\* success for a registered device with no notification of the change stored
C26_Witness ==
    /\ resp.op = "appLimit" /\ resp.status = 200
    /\ regs["c1"].exists
    /\ \A n \in notifs : n.type # "app_limit_updated"
    /\ FindIndex(devs["c1"].apps, "TikTok") > 0
    /\ devs["c1"].apps[FindIndex(devs["c1"].apps, "TikTok")].limit = resp.limit

\* C27: every value of a stored pull-style map is greater than zero, and
\* getPullLimits answers success, with the empty map when the device has no
\* map document.
C27_PullLimitsPositive ==
    /\ \A d \in LimitDevices : \A p \in DOMAIN pulls[d].apps : pulls[d].apps[p] > 0
    /\ resp.op = "getPullLimits"
          => /\ resp.status = 200
             /\ ~pulls[resp.deviceId].exists => resp.apps = EmptyMap

\* the map was there (a setPullLimit in flight read it), was cleared, and is read
C27_Witness ==
    /\ resp.op = "getPullLimits" /\ resp.status = 200
    /\ ~pulls[resp.deviceId].exists
    /\ resp.apps = EmptyMap
    /\ pul.pc = "read" /\ DOMAIN pul.apps = Packages

\* C28: a step of setPullLimit, batchSetPullLimits or clearAllPullLimits
\* leaves the device record as it was, and a step of setAppLimit or
\* setScreenTimeLimit leaves the pull-style map as it was.
C28_Step ==
    /\ (pul' # pul \/ pulls' # pulls) => devs' = devs
    /\ (lim' # lim \/ scr' # scr \/ devs' # devs) => pulls' = pulls

C28_IndependentLimits == [][C28_Step]_vars

\* the embedded limit of TikTok is 60 and its limit in the map is 30
C28_Witness ==
    /\ FindIndex(devs["c1"].apps, "TikTok") > 0
    /\ devs["c1"].apps[FindIndex(devs["c1"].apps, "TikTok")].limit = Num(60)
    /\ pulls["c1"].exists
    /\ "TikTok" \in DOMAIN pulls["c1"].apps
    /\ pulls["c1"].apps["TikTok"] = 30
    /\ devs["c1"].screenTime.limit = Num(120)

\* C29 (as claimed): every registration record that exists was created by a
\* register call, so it has a deviceType and a registeredAt stamp; link
\* creates none.
C29_RecordsOnlyByRegister ==
    \A d \in Devices :
        regs[d].exists => (regs[d].deviceType # NoType /\ regs[d].registeredAt)

\* C30: a remote-lock or remote-unlock call goes on to sendNotificationToUser
\* only if, at its check, the child's registration exists with linkedTo equal
\* to the parentId of the request, or the request names the hardcoded pair; a
\* device_lock or device_unlock notification is stored only by such a call,
\* for its childId; a call answered 404 or 403 stores nothing.
C30_Step ==
    /\ (snd.pc = "idle" /\ snd'.pc = "peer" /\ snd'.type \in LockTypes)
          => \/ regs[snd'.target].exists /\ regs[snd'.target].linkedTo = snd'.from
             \/ IsHardcodedPair(snd'.from, snd'.target)
    /\ \A n \in notifs' \ notifs :
          /\ snd.pc = "built" /\ snd.from # NoUser
          /\ n.type = snd.type /\ n.userId = snd.target
          /\ n.coll = GetNotificationCollection(regs[snd.target].deviceType)
    /\ (resp'.op = "helper" /\ resp'.status \in {403, 404}) => notifs' = notifs

C30_RemoteLockAuthorized == [][C30_Step]_vars

\* a lock stored for c1, linked to p1, and an unlock stored or about to be
\* stored for the hardcoded child, linked to nobody
C30_Witness ==
    \/ /\ \E n \in notifs : n.userId = "c1" /\ n.type = "device_lock"
       /\ regs["c1"].linkedTo = "p1"
       /\ snd.pc = "built" /\ snd.target = HardcodedChild /\ snd.type = "device_unlock"
       /\ regs[HardcodedChild].linkedTo = NoUser
    \/ /\ \E n \in notifs :
             /\ n.userId = "c1" /\ n.type = "device_lock"
             /\ regs["c1"].linkedTo = "p1"
       /\ \E n \in notifs :
             /\ n.userId = HardcodedChild /\ n.type = "device_unlock"
             /\ regs[HardcodedChild].linkedTo = NoUser

====
